---- MODULE Spec2Model ----
(***************************************************************************)
(* State-machine model of src/main.py: one run of main() over the rows of  *)
(* the spreadsheet, with the portal, the browser and the spreadsheet file  *)
(* as a nondeterministic environment.                                       *)
(*                                                                         *)
(* Rows are numbered 1..Len(df) here (pandas numbers them from 0).          *)
(* Python's None is the string NENHUM; a NaN cell is the string NaN.        *)
(***************************************************************************)
EXTENDS Integers, Sequences, FiniteSets, TLC

VARIABLES
    pc,                     \* position of main()'s control flow
    arquivo,                \* rows stored in the spreadsheet file (EXCEL_PATH)
    inicial,                \* the rows the file held when the run started
    df,                     \* the in-memory table (<<>> until it is loaded)
    index,                  \* row being processed (0 before the first row)
    tentativa,              \* parameter tentativa of the innermost preencher_formulario
    pilha,                  \* call sites of the enclosing preencher_formulario frames
    local,                  \* call site of preencher_campos_formulario
    excecao,                \* type of the exception being propagated
    manip,                  \* except clauses the propagating exception still meets
    resultado,              \* value returned by tentar_preencher_formulario
    registros_processados,
    registros_com_erro,
    login_tentativa,        \* loop variable of login(), 0 outside the call
    navegador,              \* "nenhum" (no driver yet), "vivo", "morto" (every
                            \* driver call raises) or "fechado"
    planilha_aberta,        \* TRUE once df.to_excel raised, until a later call completes
    falhas,                 \* faults met so far while rows are processed
    linha,                  \* history of the row being processed
    exec,                   \* history of the run
    credenciais,            \* what login.env holds for load_credentials
    clique,                 \* the frame of a click helper, traced on its own
    quadro,                 \* the frame of another helper, traced on its own
    colunas                 \* the column names of the spreadsheet file

vars == <<pc, arquivo, inicial, df, index, tentativa, pilha, local, excecao,
          manip, resultado, registros_processados, registros_com_erro,
          login_tentativa, navegador, planilha_aberta, falhas, linha, exec,
          credenciais, clique, quadro, colunas>>

\* ------------------------------------------------------------------------
\* Bounds of the model
\* ------------------------------------------------------------------------
MaxRows == 2            \* rows in the spreadsheet
MaxDepth == 3           \* nested preencher_formulario calls before RecursionError
MaxFalhas == 1          \* faults met while rows are processed

\* ------------------------------------------------------------------------
\* Program constants
\* ------------------------------------------------------------------------
login_max_tentativas == 3
max_tentativas == 3
max_tentativas_por_tela == 3
clique_max_tentativas == 3

NENHUM == "None"
NaN == "NaN"
PLAD_ENTRADA == "PLAD-2024-17"
PROTOCOLO_ANTERIOR == "20240001"
PROTOCOLO_NOVO == "20240002"

\* Kinds of row found in the file when the run starts: a row never
\* registered, and a row whose protocol was recorded by an earlier run
\* (preencher_campos_formulario stored it in the row's protocol cell).
Especies == {"nova", "registrada"}

LinhaDeEntrada(e) ==
    [doc         |-> "12345678901",
     plad        |-> IF e = "registrada" THEN PROTOCOLO_ANTERIOR ELSE PLAD_ENTRADA,
     categoria   |-> "Cobrança",
     servico     |-> "duvida negocial",
     cooperativa |-> "3042",
     obs         |-> NaN]

\* The files a run may start from: a sheet of new rows, or the sheet an
\* earlier run left with every row recorded.
Planilhas ==
    { [i \in 1..n |-> LinhaDeEntrada(e)] : n \in 0..MaxRows, e \in Especies }

\* Row history, reset when main() takes the next row.
LinhaNova ==
    [interagiu         |-> FALSE,   \* some driver call was made for the row
     consultou         |-> FALSE,   \* the row's document was looked up
     conta_selecionada |-> FALSE,   \* the row's cooperative account was selected
     registrar_clicado |-> FALSE,
     confirmar_clicado |-> FALSE,
     capturado         |-> NENHUM,  \* numero_protocolo read from the portal
     gravou            |-> FALSE,   \* df.to_excel completed for the row
     falha_escrita     |-> FALSE,   \* df.to_excel raised for the row
     obs_anotada       |-> FALSE,   \* df.at[index, 'Observação'] was assigned
     contado_erro      |-> FALSE,   \* registros_com_erro was incremented
     contado_ok        |-> FALSE,   \* registros_processados was incremented
     form_falhou       |-> FALSE,   \* a FormularioError was raised
     rodadas           |-> 0,       \* calls of preencher_formulario by tentar_...
     marcadores        |-> <<>>,    \* what verificar_tela_atual's waits have just met
     recusada          |-> 0,       \* depth of the call of preencher_formulario by
                                    \* itself that the interpreter refused (0: none)
     obrigatorios_validos |-> FALSE, \* the mandatory fields were all observed
                                    \* with class 'ng-valid', in the form's order
     canal_valido      |-> FALSE,   \* so was Canal de autoatendimento
     cliques_registrar |-> 0,       \* completed clicks on Registrar
     cliques_confirmar |-> 0,       \* completed clicks on Confirmar
     finalizar_chamado |-> FALSE]

ExecNova ==
    [leituras      |-> 0,       \* calls of load_excel_data
     escreveu      |-> FALSE,   \* some df.to_excel completed
     quits         |-> 0,       \* calls of driver.quit
     login_ok      |-> FALSE,
     login_falhou  |-> FALSE,   \* login() raised LoginError
     relatorio     |-> FALSE,   \* the final report was logged
     linha_da_falha |-> 0,      \* row during which the browser died (0: alive)
     confirmadas   |-> {}]      \* rows whose Confirmar button was clicked

\* login.env: missing, or present with LOGIN_USERNAME and LOGIN_PASSWORD each
\* set or empty.
Credenciais ==
    { [existe |-> FALSE, username |-> "", password |-> ""] } \cup
    { [existe |-> TRUE, username |-> u, password |-> p] :
        u \in {"", "usuario"}, p \in {"", "senha"} }

\* The columns of the spreadsheet.
Colunas ==
    {"Documento do cooperado", "Protocolo PLAD", "Categoria", "Serviço",
     "Cooperativa", "Observação"}

\* required_columns
required_columns ==
    {"Documento do cooperado", "Protocolo PLAD", "Categoria", "Serviço",
     "Cooperativa"}

\* The headers a file can come with: every column, or one or two of the
\* required ones missing. The cells of a column the file lacks are never
\* read.
Cabecalhos ==
    {Colunas} \cup { Colunas \ {c} : c \in required_columns }
              \cup { Colunas \ {"Categoria", "Serviço"} }

\* No click helper is traced.
CliqueParado ==
    [funcao |-> "nenhuma", fase |-> "parado", tentativas |-> 0, metodo |-> 0,
     retorno |-> NENHUM, completou |-> FALSE, rodadas |-> 0, chamadas |-> 0]

\* No other helper is traced.
QuadroParado == [funcao |-> "nenhuma"]

Init ==
    /\ pc = "credenciais"
    /\ credenciais \in Credenciais
    /\ arquivo \in Planilhas
    /\ inicial = arquivo
    /\ df = <<>>
    /\ index = 0
    /\ tentativa = 0
    /\ pilha = <<>>
    /\ local = "nenhum"
    /\ excecao = "nenhuma"
    /\ manip = <<>>
    /\ resultado = NENHUM
    /\ registros_processados = 0
    /\ registros_com_erro = 0
    /\ login_tentativa = 0
    /\ navegador = "nenhum"
    /\ planilha_aberta = FALSE
    /\ falhas = 0
    /\ linha = LinhaNova
    /\ exec = ExecNova
    /\ clique = CliqueParado
    /\ quadro = QuadroParado
    /\ colunas \in Cabecalhos


\* ------------------------------------------------------------------------
\* Messages written to the 'Observação' column
\* ------------------------------------------------------------------------
MSG_MAX_TENTATIVAS == "Número máximo de tentativas excedido para esta tela"
MSG_CONTA == "Falha ao selecionar conta"
MSG_CONTA_VAZIA == "Conta não foi selecionada corretamente"
MSG_VERIF_CONTA == "Erro ao verificar seleção da conta"
MSG_COBRANCA == "Falha ao clicar no menu Cobrança"
MSG_REGISTRO == "Falha ao clicar no botão de registro de chamado"
MSG_FORM_NAO_ABRIU == "Formulário não abriu corretamente ou campos não apareceram"
MSG_CONSULTAR == "Falha ao clicar no botão consultar"
MSG_PESSOA == "Pessoa não encontrada"
MSG_ABRIR == "Falha ao clicar no botão Abrir"
MSG_TELA_NAO_MUDOU == "Tela não mudou para seleção de conta após clicar em Abrir"
MSG_DOCUMENTO == "Falha ao preencher documento"
MSG_ERRO_DOCUMENTO == "Erro ao preencher documento"
MSG_ERRO_GERAL == "Erro geral na função preencher_formulario"
MSG_ERRO_CAMPOS == "Erro ao preencher campos do formulário"
MSG_APOS_TENTATIVAS == "Erro após 3 tentativas"
MSG_FINALIZACAO == "Erro em finalização do atendimento"
MSG_PROCESSAMENTO == "Erro em processamento do registro"

\* The except clauses of preencher_campos_formulario and preencher_formulario,
\* named by what they guard, and the message each one writes.
MensagemDe(h) ==
    CASE h = "campos"      -> MSG_ERRO_CAMPOS
      [] h = "abrir_form"  -> MSG_FORM_NAO_ABRIU
      [] h = "verif_conta" -> MSG_VERIF_CONTA
      [] h = "documento"   -> MSG_ERRO_DOCUMENTO
      [] h = "geral"       -> MSG_ERRO_GERAL

\* except clauses around a recursive call of preencher_formulario:
\* the call on the consult screen sits inside the inner try (documento) and
\* the outer try (geral), the call on an unknown screen inside the outer only.
ManipDoLocal(site) ==
    IF site = "cons" THEN <<"documento", "geral">> ELSE <<"geral">>

RECURSIVE ManipDaPilha(_)
ManipDaPilha(p) ==
    IF p = <<>> THEN <<>>
    ELSE ManipDoLocal(p[Len(p)]) \o ManipDaPilha(SubSeq(p, 1, Len(p) - 1))

\* except clauses around the call of preencher_campos_formulario.
ManipDoFormulario(l) ==
    IF l = "sel" THEN <<"abrir_form", "geral">> ELSE <<"geral">>

\* ------------------------------------------------------------------------
\* The environment
\* ------------------------------------------------------------------------
\* A fault is an outcome of a portal step other than the one the code waits
\* for, the death of the browser, or a df.to_excel that raises although the
\* previous one completed (another program took hold of the file).
PodeFalhar == falhas < MaxFalhas

\* The outcomes of a step: the forced one with a dead browser, else the good
\* one and, while faults remain, the bad ones.
Resultados(morto, bom, ruins) ==
    IF navegador = "morto" THEN {morto}
    ELSE IF PodeFalhar THEN {bom} \cup ruins
    ELSE {bom}

\* Faults in outcome o of a step whose good outcome is bom.
Custo(o, bom) == IF navegador # "morto" /\ o # bom THEN 1 ELSE 0

\* df.to_excel(EXCEL_PATH, index=False) in a step that met c faults already:
\* it completes, or raises because the file is held by another program.
Escritas(c) ==
    IF planilha_aberta \/ falhas + c < MaxFalhas THEN {"ok", "erro"} ELSE {"ok"}

\* The faults of a step that met c of them before its df.to_excel ended in e.
ContaEscrita(c, e) ==
    /\ falhas' = falhas + c + (IF e = "erro" /\ ~planilha_aberta THEN 1 ELSE 0)
    /\ planilha_aberta' = (e = "erro")

\* The faults of a step that met c of them and wrote nothing.
ContaPasso(c) ==
    /\ falhas' = falhas + c
    /\ UNCHANGED planilha_aberta

\* ------------------------------------------------------------------------
\* Control-flow fragments
\* ------------------------------------------------------------------------
\* preencher_formulario returns res; every enclosing frame returns it too
\* (each recursive call is a 'return preencher_formulario(...)').
Retorna(res) ==
    /\ pc' = "retorno"
    /\ resultado' = res
    /\ pilha' = <<>>
    /\ tentativa' = 0
    /\ local' = "nenhum"
    /\ excecao' = "nenhuma"
    /\ manip' = <<>>

\* An exception of type tipo leaves the try blocks whose except clauses are
\* hs; beyond them lie those of the enclosing frames, of
\* tentar_preencher_formulario and of main()'s row loop.
Propaga(tipo, hs) ==
    /\ pc' = "propaga"
    /\ excecao' = tipo
    /\ manip' = hs \o ManipDaPilha(pilha) \o <<"tentar", "main">>
    /\ pilha' = <<>>
    /\ tentativa' = 0
    /\ local' = "nenhum"
    /\ resultado' = NENHUM

GravouLinha(l) == [l EXCEPT !.gravou = TRUE]

FalhouLinha(l) == [l EXCEPT !.falha_escrita = TRUE]

\* The note assigned to the whole 'Observação' column instead of the row's cell.
AnotaEGravaNaColuna(msg, hs, l, c) ==
    /\ df' = [r \in 1..Len(df) |-> [df[r] EXCEPT !.obs = msg]]
    /\ \E e \in Escritas(c) :
         /\ ContaEscrita(c, e)
         /\ IF e = "erro"
            THEN /\ linha' = FalhouLinha([l EXCEPT !.obs_anotada = TRUE])
                 /\ UNCHANGED <<arquivo, exec>>
                 /\ Propaga("OSError", hs)
            ELSE /\ arquivo' = df'
                 /\ linha' = GravouLinha([l EXCEPT !.obs_anotada = TRUE])
                 /\ exec' = [exec EXCEPT !.escreveu = TRUE]
                 /\ Retorna(NENHUM)

\* "df.at[index, 'Observação'] = msg; df.to_excel(...); return None" inside
\* the try blocks whose except clauses are hs; l is the row history so far
\* and c the faults the step met before.
AnotaSemGravar(msg, hs, l, c) ==
    /\ df' = [df EXCEPT ![index].obs = msg]
    /\ linha' = [l EXCEPT !.obs_anotada = TRUE]
    /\ UNCHANGED <<arquivo, exec>>
    /\ ContaPasso(c)
    /\ Retorna(NENHUM)

AnotaEGrava(msg, hs, l, c) ==
    /\ df' = [df EXCEPT ![index].obs = msg]
    /\ \E e \in Escritas(c) :
         /\ ContaEscrita(c, e)
         /\ IF e = "erro"
            THEN /\ linha' = FalhouLinha([l EXCEPT !.obs_anotada = TRUE])
                 /\ UNCHANGED <<arquivo, exec>>
                 /\ Propaga("OSError", hs)
            ELSE /\ arquivo' = df'
                 /\ linha' = GravouLinha([l EXCEPT !.obs_anotada = TRUE])
                 /\ exec' = [exec EXCEPT !.escreveu = TRUE]
                 /\ Retorna(NENHUM)

\* An exception raised inside the try blocks whose except clauses are hs, the
\* nearest first. Each is an 'except Exception', so the nearest one catches
\* it whatever its type: it notes its message, saves and returns None.
Levanta(tipo, hs, l, c) ==
    AnotaEGrava(MensagemDe(Head(hs)), Tail(hs), l, c)

\* ------------------------------------------------------------------------
\* main(): start, login, load
\* ------------------------------------------------------------------------
\* load_credentials on the contents c of login.env: the exception it raises,
\* or "ok".
load_credentials_sem_vazio(c) ==
    IF ~c.existe THEN "FileNotFoundError" ELSE "ok"

load_credentials(c) ==
    IF ~c.existe THEN "FileNotFoundError"
    ELSE IF c.username = "" \/ c.password = "" THEN "ValueError"
    ELSE "ok"

\* main() calls load_credentials first, inside its outer try.
CarregarCredenciais ==
    /\ pc = "credenciais"
    /\ IF load_credentials(credenciais) = "ok"
       THEN /\ pc' = "inicio"
            /\ UNCHANGED excecao
       ELSE /\ pc' = "except"
            /\ excecao' = load_credentials(credenciais)
    /\ UNCHANGED <<arquivo, inicial, df, index, tentativa, pilha, local,
                   manip, resultado, registros_processados, registros_com_erro,
                   login_tentativa, navegador, planilha_aberta, falhas, linha,
                   exec, credenciais, clique, quadro, colunas>>

\* setup_driver: the browser session of the run.
Inicio ==
    /\ pc = "inicio"
    /\ pc' = "login"
    /\ navegador' = "vivo"
    /\ UNCHANGED <<arquivo, inicial, df, index, tentativa, pilha, local, excecao,
                   manip, resultado, registros_processados, registros_com_erro,
                   login_tentativa, planilha_aberta, falhas, linha, exec>>
    /\ UNCHANGED <<credenciais, clique, quadro, colunas>>

\* Where control goes when attempt t of login() failed: the next attempt, or
\* LoginError out of login() and past the rest of main()'s try block.
DestinoSemRaise(t) ==
    IF t < login_max_tentativas - 1 THEN "login" ELSE "carregar"

DestinoFalhaLogin(t) ==
    IF t < login_max_tentativas - 1 THEN "login" ELSE "finally"

login ==
    /\ pc = "login"
    /\ \E ok \in BOOLEAN :
         IF ok
         THEN /\ pc' = "carregar"
              /\ exec' = [exec EXCEPT !.login_ok = TRUE]
              /\ login_tentativa' = 0
              /\ UNCHANGED excecao
         ELSE /\ pc' = DestinoFalhaLogin(login_tentativa)
              /\ login_tentativa' = login_tentativa + 1
              /\ exec' = [exec EXCEPT !.login_falhou =
                                        login_tentativa >= login_max_tentativas - 1]
              /\ excecao' = IF pc' = "finally" THEN "LoginError" ELSE "nenhuma"
    /\ UNCHANGED <<arquivo, inicial, df, index, tentativa, pilha, local,
                   manip, resultado, registros_processados, registros_com_erro,
                   linha>>
    /\ UNCHANGED <<navegador, planilha_aberta, falhas>>
    /\ UNCHANGED <<credenciais, clique, quadro, colunas>>

\* The load of the table without the test of its columns.
load_excel_data_sem_colunas ==
    /\ pc = "carregar"
    /\ df' = arquivo
    /\ exec' = [exec EXCEPT !.leituras = @ + 1]
    /\ pc' = "laco"
    /\ UNCHANGED <<arquivo, inicial, index, tentativa, pilha, local, excecao,
                   manip, resultado, registros_processados, registros_com_erro,
                   login_tentativa, linha>>
    /\ UNCHANGED <<navegador, planilha_aberta, falhas>>
    /\ UNCHANGED <<credenciais, clique, quadro, colunas>>

\* df = load_excel_data(EXCEL_PATH), then ValueError out of main()'s inner
\* try if a required column is missing.
load_excel_data ==
    /\ pc = "carregar"
    /\ df' = arquivo
    /\ exec' = [exec EXCEPT !.leituras = @ + 1]
    /\ IF required_columns \subseteq colunas
       THEN /\ pc' = "laco"
            /\ UNCHANGED excecao
       ELSE /\ pc' = "finally"
            /\ excecao' = "ValueError"
    /\ UNCHANGED <<arquivo, inicial, index, tentativa, pilha, local,
                   manip, resultado, registros_processados, registros_com_erro,
                   login_tentativa, linha>>
    /\ UNCHANGED <<navegador, planilha_aberta, falhas>>
    /\ UNCHANGED <<credenciais, clique, quadro, colunas>>

\* ------------------------------------------------------------------------
\* main(): the row loop
\* ------------------------------------------------------------------------
\* The loop step with the table read again from the file for each row.
IniciarLinhaRelendo ==
    /\ pc = "laco"
    /\ index < Len(df)
    /\ index' = index + 1
    /\ linha' = [LinhaNova EXCEPT !.rodadas = 1]
    /\ pc' = "pf"
    /\ tentativa' = 0
    /\ pilha' = <<>>
    /\ df' = arquivo
    /\ exec' = [exec EXCEPT !.leituras = @ + 1]
    /\ UNCHANGED <<arquivo, inicial, local, excecao, manip, resultado,
                   registros_processados, registros_com_erro, login_tentativa,
                   navegador, planilha_aberta, falhas>>
    /\ UNCHANGED <<credenciais, clique, quadro, colunas>>

\* for index, row in df.iterrows(): tentar_preencher_formulario(...) enters
\* preencher_formulario with tentativa = 0.
IniciarLinha ==
    /\ pc = "laco"
    /\ index < Len(df)
    /\ index' = index + 1
    /\ linha' = [LinhaNova EXCEPT !.rodadas = 1]
    /\ pc' = "pf"
    /\ tentativa' = 0
    /\ pilha' = <<>>
    /\ UNCHANGED <<arquivo, inicial, df, local, excecao, manip, resultado,
                   registros_processados, registros_com_erro, login_tentativa,
                   exec>>
    /\ UNCHANGED <<navegador, planilha_aberta, falhas>>
    /\ UNCHANGED <<credenciais, clique, quadro, colunas>>

RelatorioFinal ==
    /\ pc = "laco"
    /\ index = Len(df)
    /\ exec' = [exec EXCEPT !.relatorio = TRUE]
    /\ pc' = "finally"
    /\ UNCHANGED <<arquivo, inicial, df, index, tentativa, pilha, local, excecao,
                   manip, resultado, registros_processados, registros_com_erro,
                   login_tentativa, linha>>
    /\ UNCHANGED <<navegador, planilha_aberta, falhas>>
    /\ UNCHANGED <<credenciais, clique, quadro, colunas>>

\* ------------------------------------------------------------------------
\* preencher_formulario
\* ------------------------------------------------------------------------
Resto == <<inicial, index, registros_processados, registros_com_erro,
           login_tentativa, navegador>>

\* What a WebDriverWait for one of the screen markers can end in.
Marcadores ==
    IF navegador = "morto" THEN {"erro"} ELSE {"presente", "ausente", "erro"}

\* verificar_tela_atual with the account select looked for first.
verificar_tela_atual_conta_primeiro(doc, sel, form) ==
    IF sel = "presente" THEN "selecao_conta"
    ELSE IF doc = "presente" THEN "consulta"
    ELSE IF doc = "erro" \/ sel = "erro" THEN "desconhecida"
    ELSE IF form = "presente" THEN "formulario"
    ELSE "desconhecida"

\* doc: the document field, sel: the account select, form: any form element.
verificar_tela_atual(doc, sel, form) ==
    IF doc = "presente" THEN "consulta"
    ELSE IF doc = "erro" THEN "desconhecida"
    ELSE IF sel = "presente" THEN "selecao_conta"
    ELSE IF sel = "erro" THEN "desconhecida"
    ELSE IF form = "presente" THEN "formulario"
    ELSE "desconhecida"

\* A wait verificar_tela_atual returned before reaching.
NAO_AVALIADO == "nao_avaliado"

\* What the three waits of one call can meet: the account select is waited
\* for only if the document field timed out, a form only if both did.
ObservacoesDe(ms) ==
    { <<doc, NAO_AVALIADO, NAO_AVALIADO>> : doc \in ms \ {"ausente"} } \cup
    { <<"ausente", sel, NAO_AVALIADO>> : sel \in ms \ {"ausente"} } \cup
    { <<"ausente", "ausente", form>> : form \in ms }

\* What the call can meet in the present state of the browser.
Observacoes == ObservacoesDe(Marcadores)

\* The row history once the branch on tela_atual is taken.
Visto(l) == [l EXCEPT !.marcadores = <<>>]

\* The values verificar_tela_atual can return in the present state.
Telas ==
    { verificar_tela_atual(doc, sel, form) :
        doc \in Marcadores, sel \in Marcadores, form \in Marcadores }

\* return preencher_formulario(driver, actions, row, index, df[, t]) at the
\* call site 'site'; the interpreter raises RecursionError in a frame too deep.
Chamar(site, t, l, c) ==
    IF Len(pilha) >= MaxDepth
    THEN Levanta("RecursionError", ManipDoLocal(site),
                 [l EXCEPT !.recusada = Len(pilha) + 1], c)
    ELSE /\ pc' = "pf"
         /\ pilha' = Append(pilha, site)
         /\ tentativa' = t
         /\ linha' = l
         /\ ContaPasso(c)
         /\ UNCHANGED <<df, arquivo, exec, local, excecao, manip, resultado>>

\* The entry of preencher_formulario with 'tentativa > max_tentativas_por_tela'.
preencher_formulario_uma_a_mais ==
    /\ pc = "pf"
    /\ IF tentativa > max_tentativas_por_tela
       THEN AnotaEGrava(MSG_MAX_TENTATIVAS, <<"geral">>, linha, 0)
       ELSE /\ \E m \in Observacoes :
                 /\ pc' = verificar_tela_atual(m[1], m[2], m[3])
                 /\ linha' = [linha EXCEPT !.interagiu = TRUE, !.marcadores = m]
            /\ local' = IF pc' = "formulario" THEN "direto" ELSE local
            /\ ContaPasso(0)
            /\ UNCHANGED <<df, arquivo, exec, tentativa, pilha, excecao,
                           manip, resultado>>
    /\ UNCHANGED Resto
    /\ UNCHANGED <<credenciais, clique, quadro, colunas>>

\* Entry of preencher_formulario up to the branch on tela_atual.
preencher_formulario ==
    /\ pc = "pf"
    /\ IF tentativa >= max_tentativas_por_tela
       THEN AnotaEGrava(MSG_MAX_TENTATIVAS, <<"geral">>, linha, 0)
       ELSE /\ \E m \in Observacoes :
                 /\ pc' = verificar_tela_atual(m[1], m[2], m[3])
                 /\ linha' = [linha EXCEPT !.interagiu = TRUE, !.marcadores = m]
            /\ local' = IF pc' = "formulario" THEN "direto" ELSE local
            /\ ContaPasso(0)
            /\ UNCHANGED <<df, arquivo, exec, tentativa, pilha, excecao,
                           manip, resultado>>
    /\ UNCHANGED Resto
    /\ UNCHANGED <<credenciais, clique, quadro, colunas>>

\* tela_atual == "formulario": straight to preencher_campos_formulario.
TelaFormulario ==
    /\ pc = "formulario"
    /\ pc' = "campos"
    /\ linha' = Visto(linha)
    /\ UNCHANGED <<df, arquivo, exec, tentativa, pilha, local, excecao,
                   manip, resultado, planilha_aberta, falhas>>
    /\ UNCHANGED Resto
    /\ UNCHANGED <<credenciais, clique, quadro, colunas>>

\* tela_atual == "desconhecida": reload the base URL and re-enter.
TelaDesconhecida ==
    /\ pc = "desconhecida"
    /\ \E o \in Resultados("erro", "carregou", {"erro"}) :
         IF o = "erro"
         THEN Levanta("WebDriverException", <<"geral">>, Visto(linha),
                      Custo(o, "carregou"))
         ELSE Chamar("desc", tentativa + 1, Visto(linha), 0)
    /\ UNCHANGED Resto
    /\ UNCHANGED <<credenciais, clique, quadro, colunas>>

\* tela_atual == "consulta": type the document, consult, open.
TelaConsulta ==
    /\ pc = "consulta"
    /\ \E o \in Resultados("excecao", "abriu",
                           {"excecao", "doc_errado", "consultar_falhou",
                            "pessoa_nao_encontrada", "abrir_falhou"}) :
         LET l == [Visto(linha) EXCEPT !.consultou =
                     @ \/ o \in {"pessoa_nao_encontrada", "abrir_falhou", "abriu"}]
             hs == <<"documento", "geral">>
             c == Custo(o, "abriu")
         IN  CASE o = "excecao" -> Levanta("WebDriverException", hs, Visto(linha), c)
               [] o = "doc_errado" -> AnotaEGrava(MSG_DOCUMENTO, hs, l, c)
               [] o = "consultar_falhou" -> AnotaEGrava(MSG_CONSULTAR, hs, l, c)
               [] o = "pessoa_nao_encontrada" -> AnotaEGrava(MSG_PESSOA, hs, l, c)
               [] o = "abrir_falhou" -> AnotaEGrava(MSG_ABRIR, hs, l, c)
               [] o = "abriu" ->
                    \E mudou \in { t = "selecao_conta" : t \in Telas } :
                       IF mudou
                       THEN Chamar("cons", 0, l, 0)
                       ELSE AnotaEGrava(MSG_TELA_NAO_MUDOU, hs, l, 0)
    /\ UNCHANGED Resto
    /\ UNCHANGED <<credenciais, clique, quadro, colunas>>

\* tela_atual == "selecao_conta": select the account, open the ticket form.
TelaSelecao ==
    /\ pc = "selecao_conta"
    /\ \E o \in Resultados("selecionar_falhou", "ok",
                           {"selecionar_falhou", "sem_valor", "erro_verificar",
                            "cobranca_falhou", "registro_falhou", "form_nao_abriu"}) :
         LET l == [Visto(linha) EXCEPT !.conta_selecionada =
                     @ \/ o \in {"cobranca_falhou", "registro_falhou",
                                 "form_nao_abriu", "ok"}]
             c == Custo(o, "ok")
         IN  CASE o = "selecionar_falhou" ->
                    AnotaEGrava(MSG_CONTA, <<"geral">>, l, c)
               [] o = "sem_valor" ->
                    AnotaEGrava(MSG_CONTA_VAZIA, <<"verif_conta", "geral">>, l, c)
               [] o = "erro_verificar" ->
                    AnotaEGrava(MSG_VERIF_CONTA, <<"geral">>, l, c)
               [] o = "cobranca_falhou" ->
                    AnotaEGrava(MSG_COBRANCA, <<"geral">>, l, c)
               [] o = "registro_falhou" ->
                    AnotaEGrava(MSG_REGISTRO, <<"geral">>, l, c)
               [] o = "form_nao_abriu" ->
                    AnotaEGrava(MSG_FORM_NAO_ABRIU, <<"geral">>, l, c)
               [] o = "ok" ->
                    /\ pc' = "campos"
                    /\ local' = "sel"
                    /\ linha' = l
                    /\ ContaPasso(0)
                    /\ UNCHANGED <<df, arquivo, exec, tentativa, pilha, excecao,
                                   manip, resultado>>
    /\ UNCHANGED Resto
    /\ UNCHANGED <<credenciais, clique, quadro, colunas>>

\* ------------------------------------------------------------------------
\* preencher_campos_formulario
\* ------------------------------------------------------------------------
\* An exception inside preencher_campos_formulario that sends the function
\* back to its first field.
LevantaNoFormularioRepetindo(tipo, l, c) ==
    /\ pc' = "campos"
    /\ linha' = l
    /\ ContaPasso(c)
    /\ UNCHANGED <<df, arquivo, exec, tentativa, pilha, local, excecao, manip,
                   resultado>>

\* An exception inside preencher_campos_formulario meets its own except
\* clause first, then those around its call.
LevantaNoFormulario(tipo, l, c) ==
    Levanta(tipo, <<"campos">> \o ManipDoFormulario(local), l, c)

\* The fields of the form in the order preencher_campos_formulario fills them.
CANAL == "Canal de autoatendimento"

Campos == <<"Tipo de atendimento", "Categoria", "Subcategoria", "Serviço",
            CANAL, "Protocolo PLAD", "Descrição">>

\* The fields with a 'raise FormularioError' of their own that leaves the
\* function's try.
Obrigatorios == SelectSeq(Campos, LAMBDA f : f # CANAL)

\* for tentativa in range(3)
tentativas_por_campo == 3

\* What the portal does with a field: it marks it 'ng-valid' after the
\* first, second or third fill, or not within the three, or a driver call
\* on the field raises.
Validacoes == {"1", "2", "3", "nunca"}

DesfechosDoCampo == Validacoes \cup {"levanta"}

\* The fill after which aguardar_campo_valido returns True.
Vez(v) == CASE v = "1" -> 1 [] v = "2" -> 2 [] v = "3" -> 3
            [] v = "nunca" -> tentativas_por_campo + 1

\* The loop over a field with its else clause left out: the function goes
\* on after the last attempt whatever aguardar_campo_valido returned.
LacoDoCampoSemElse(v) ==
    [valido |-> TRUE,
     tentativas |-> IF Vez(v) <= tentativas_por_campo
                    THEN Vez(v) ELSE tentativas_por_campo]

\* for tentativa in range(3): fill; if aguardar_campo_valido(...): break
\* else: raise FormularioError(...)
LacoDoCampo(v) ==
    [valido |-> Vez(v) <= tentativas_por_campo,
     tentativas |-> IF Vez(v) <= tentativas_por_campo
                    THEN Vez(v) ELSE tentativas_por_campo]

\* A field as if Canal de autoatendimento had no try of its own.
CampoSemTryDoCanal(k, o) ==
    IF o = "levanta" THEN "WebDriverException"
    ELSE IF LacoDoCampo(o).valido THEN "segue"
    ELSE "FormularioError"

\* What field number k ends in when the portal does o with it: the function
\* goes on, or raises. Whatever is raised for Canal de autoatendimento meets
\* the 'except Exception' around that field alone, which only prints.
Campo(k, o) ==
    IF Campos[k] = CANAL THEN "segue"
    ELSE IF o = "levanta" THEN "WebDriverException"
    ELSE IF LacoDoCampo(o).valido THEN "segue"
    ELSE "FormularioError"

\* The fields from number k on, the portal doing os[i] with field i:
\* where the function stops, how, and the fields it saw valid before.
RECURSIVE PercorrerCampos(_, _, _)
PercorrerCampos(k, os, vistos) ==
    IF k > Len(Campos)
    THEN [fim |-> "segue", campo |-> Len(Campos), validos |-> vistos,
          custo |-> 0]
    ELSE LET v == IF os[k] \in Validacoes /\ Vez(os[k]) <= tentativas_por_campo
                  THEN Append(vistos, Campos[k]) ELSE vistos
         IN  IF Campo(k, os[k]) = "segue"
             THEN PercorrerCampos(k + 1, os, v)
             ELSE [fim |-> Campo(k, os[k]), campo |-> k, validos |-> v,
                   custo |-> 0]

\* The portal's doings with the seven fields that differ from the expected
\* one in at most n fields.
RECURSIVE Desvios(_)
Desvios(n) ==
    IF n = 0 THEN { [k \in 1..Len(Campos) |-> "1"] }
    ELSE LET menos == Desvios(n - 1)
         IN  menos \cup { [os EXCEPT ![k] = o] :
                            os \in menos, k \in 1..Len(Campos),
                            o \in DesfechosDoCampo }

\* The fields up to number k that did not do the expected thing.
DesviosAte(os, k) == Cardinality({ i \in 1..k : os[i] # "1" })

\* Where preencher_campos_formulario can get to over the fields, and the
\* number of fields that did not do the expected thing on the way, when at
\* most n fields do not; tabulated.
PercursosPor ==
    [n \in 0..MaxFalhas |->
        { LET r == PercorrerCampos(1, os, <<>>)
          IN  [r EXCEPT !.custo = DesviosAte(os, r.campo)] : os \in Desvios(n) }]

\* The same with a dead browser: the first driver call raises.
PercursoMorto ==
    PercorrerCampos(1, [k \in 1..Len(Campos) |-> "levanta"], <<>>)

\* Where the function can get to in the present state.
PercursosDoFormulario ==
    IF navegador = "morto" THEN {PercursoMorto}
    ELSE PercursosPor[MaxFalhas - falhas]

\* The fields from Tipo de atendimento to Descrição.
PreencherCampos ==
    /\ pc = "campos"
    /\ \E r \in PercursosDoFormulario :
         LET l == [linha EXCEPT
                     !.obrigatorios_validos =
                         (SelectSeq(r.validos, LAMBDA f : f # CANAL) = Obrigatorios),
                     !.canal_valido =
                         (\E i \in 1..Len(r.validos) : r.validos[i] = CANAL),
                     !.form_falhou = (r.fim = "FormularioError")]
         IN  IF r.fim = "segue"
             THEN /\ pc' = "registrar"
                  /\ linha' = l
                  /\ ContaPasso(r.custo)
                  /\ UNCHANGED <<df, arquivo, exec, tentativa, pilha, local,
                                 excecao, manip, resultado>>
             ELSE LevantaNoFormulario(r.fim, l, r.custo)
    /\ UNCHANGED Resto
    /\ UNCHANGED <<credenciais, clique, quadro, colunas>>

\* Wait for the Registrar button to be enabled and click it.
ClicarRegistrar ==
    /\ pc = "registrar"
    /\ \E o \in Resultados("clique_falhou", "ok", {"desabilitado", "clique_falhou"}) :
         LET c == Custo(o, "ok")
         IN  CASE o = "desabilitado" ->
                    LevantaNoFormulario("FormularioError",
                                        [linha EXCEPT !.form_falhou = TRUE], c)
               [] o = "clique_falhou" ->
                    LevantaNoFormulario("WebDriverException", linha, c)
               [] o = "ok" ->
                    /\ pc' = "confirmar"
                    /\ linha' = [linha EXCEPT !.registrar_clicado = TRUE,
                                              !.cliques_registrar = @ + 1]
                    /\ ContaPasso(0)
                    /\ UNCHANGED <<df, arquivo, exec, tentativa, pilha, local,
                                   excecao, manip, resultado>>
    /\ UNCHANGED Resto
    /\ UNCHANGED <<credenciais, clique, quadro, colunas>>

\* Wait for the Confirmar button of the modal and click it.
ClicarConfirmar ==
    /\ pc = "confirmar"
    /\ \E o \in Resultados("timeout", "ok", {"timeout"}) :
         IF o = "timeout"
         THEN LevantaNoFormulario("WebDriverException", linha, Custo(o, "ok"))
         ELSE /\ pc' = "captura"
              /\ linha' = [linha EXCEPT !.confirmar_clicado = TRUE,
                                        !.cliques_confirmar = @ + 1]
              /\ exec' = [exec EXCEPT !.confirmadas = @ \cup {index}]
              /\ ContaPasso(0)
              /\ UNCHANGED <<df, arquivo, tentativa, pilha, local, excecao,
                             manip, resultado>>
    /\ UNCHANGED Resto
    /\ UNCHANGED <<credenciais, clique, quadro, colunas>>

\* Read numero_protocolo (the element's text may still be empty), store it
\* in the row and save the spreadsheet.
CapturarProtocolo ==
    /\ pc = "captura"
    /\ \E o \in Resultados("timeout", PROTOCOLO_NOVO, {"timeout", ""}) :
         LET c == Custo(o, PROTOCOLO_NOVO)
         IN  IF o = "timeout"
             THEN LevantaNoFormulario("WebDriverException", linha, c)
             ELSE /\ df' = [df EXCEPT ![index].plad = o]
                  /\ \E e \in Escritas(c) :
                       /\ ContaEscrita(c, e)
                       /\ IF e = "erro"
                          THEN /\ linha' = FalhouLinha([linha EXCEPT !.capturado = o])
                               /\ UNCHANGED <<arquivo, exec>>
                               /\ Propaga("OSError",
                                          <<"campos">> \o ManipDoFormulario(local))
                          ELSE /\ arquivo' = df'
                               /\ linha' = GravouLinha([linha EXCEPT !.capturado = o])
                               /\ exec' = [exec EXCEPT !.escreveu = TRUE]
                               /\ Retorna(o)
    /\ UNCHANGED Resto
    /\ UNCHANGED <<credenciais, clique, quadro, colunas>>

\* ------------------------------------------------------------------------
\* Exception propagation
\* ------------------------------------------------------------------------
ManipInternos == {"campos", "abrir_form", "verif_conta", "documento", "geral"}

\* An 'except Exception' clause of preencher_campos_formulario or
\* preencher_formulario that meets the exception of a failed df.to_excel:
\* note the error in the row, save, return None.
TratarInterno ==
    /\ pc = "propaga"
    /\ Head(manip) \in ManipInternos
    /\ df' = [df EXCEPT ![index].obs = MensagemDe(Head(manip))]
    /\ \E e \in Escritas(0) :
         /\ ContaEscrita(0, e)
         /\ IF e = "erro"
            THEN /\ linha' = FalhouLinha([linha EXCEPT !.obs_anotada = TRUE])
                 /\ excecao' = "OSError"
                 /\ manip' = Tail(manip)
                 /\ UNCHANGED <<pc, arquivo, exec, tentativa, pilha, local,
                                resultado>>
            ELSE /\ arquivo' = df'
                 /\ linha' = GravouLinha([linha EXCEPT !.obs_anotada = TRUE])
                 /\ exec' = [exec EXCEPT !.escreveu = TRUE]
                 /\ Retorna(NENHUM)
    /\ UNCHANGED Resto
    /\ UNCHANGED <<credenciais, clique, quadro, colunas>>

\* 'except FormularioError' of tentar_preencher_formulario: other exceptions
\* pass through; a FormularioError is retried until the last attempt, the
\* retry starting with driver.refresh().
tentar_preencher_formulario ==
    /\ pc = "propaga"
    /\ Head(manip) = "tentar"
    /\ IF excecao # "FormularioError"
       THEN /\ manip' = Tail(manip)
            /\ UNCHANGED <<pc, df, arquivo, exec, linha, tentativa, pilha, local,
                           excecao, resultado, planilha_aberta, falhas>>
       ELSE IF linha.rodadas = max_tentativas
       THEN AnotaEGrava(MSG_APOS_TENTATIVAS, <<>>, linha, 0)
       ELSE IF navegador = "morto"
       THEN /\ excecao' = "WebDriverException"
            /\ manip' = Tail(manip)
            /\ UNCHANGED <<pc, df, arquivo, exec, linha, tentativa, pilha, local,
                           resultado, planilha_aberta, falhas>>
       ELSE /\ pc' = "pf"
            /\ linha' = [linha EXCEPT !.rodadas = @ + 1]
            /\ excecao' = "nenhuma"
            /\ manip' = <<>>
            /\ UNCHANGED <<df, arquivo, exec, tentativa, pilha, local, resultado,
                           planilha_aberta, falhas>>
    /\ UNCHANGED Resto
    /\ UNCHANGED <<credenciais, clique, quadro, colunas>>

\* The handler of main()'s row loop without its registros_com_erro += 1.
TratarMainSemContar ==
    /\ pc = "propaga"
    /\ Head(manip) = "main"
    /\ UNCHANGED registros_com_erro
    /\ df' = [df EXCEPT ![index].obs = MSG_PROCESSAMENTO]
    /\ manip' = <<>>
    /\ \E e \in Escritas(0) :
         /\ ContaEscrita(0, e)
         /\ IF e = "erro"
            THEN /\ linha' = FalhouLinha([linha EXCEPT !.obs_anotada = TRUE,
                                                       !.contado_erro = TRUE])
                 /\ excecao' = "OSError"
                 /\ pc' = "finally"
                 /\ UNCHANGED <<arquivo, exec>>
            ELSE /\ arquivo' = df'
                 /\ linha' = GravouLinha([linha EXCEPT !.obs_anotada = TRUE,
                                                       !.contado_erro = TRUE])
                 /\ exec' = [exec EXCEPT !.escreveu = TRUE]
                 /\ excecao' = "nenhuma"
                 /\ pc' = "laco"
    /\ UNCHANGED <<inicial, index, tentativa, pilha, local, resultado,
                   registros_processados, login_tentativa, navegador>>
    /\ UNCHANGED <<credenciais, clique, quadro, colunas>>

\* 'except Exception' of main()'s row loop: count the error, log_error, continue.
\* An exception raised by log_error leaves the loop.
TratarMain ==
    /\ pc = "propaga"
    /\ Head(manip) = "main"
    /\ registros_com_erro' = registros_com_erro + 1
    /\ df' = [df EXCEPT ![index].obs = MSG_PROCESSAMENTO]
    /\ manip' = <<>>
    /\ \E e \in Escritas(0) :
         /\ ContaEscrita(0, e)
         /\ IF e = "erro"
            THEN /\ linha' = FalhouLinha([linha EXCEPT !.obs_anotada = TRUE,
                                                       !.contado_erro = TRUE])
                 /\ excecao' = "OSError"
                 /\ pc' = "finally"
                 /\ UNCHANGED <<arquivo, exec>>
            ELSE /\ arquivo' = df'
                 /\ linha' = GravouLinha([linha EXCEPT !.obs_anotada = TRUE,
                                                       !.contado_erro = TRUE])
                 /\ exec' = [exec EXCEPT !.escreveu = TRUE]
                 /\ excecao' = "nenhuma"
                 /\ pc' = "laco"
    /\ UNCHANGED <<inicial, index, tentativa, pilha, local, resultado,
                   registros_processados, login_tentativa, navegador>>
    /\ UNCHANGED <<credenciais, clique, quadro, colunas>>

\* ------------------------------------------------------------------------
\* main(): after tentar_preencher_formulario returned
\* ------------------------------------------------------------------------
\* Python truth value of the returned protocol (None or a string).
NaoENone(res) == res # NENHUM

Verdadeiro(res) == res # NENHUM /\ res # ""

\* The else branch of main() without its registros_com_erro += 1.
RetornoSemContar ==
    /\ pc = "retorno"
    /\ IF Verdadeiro(resultado)
       THEN /\ pc' = "finalizar"
            /\ linha' = [linha EXCEPT !.finalizar_chamado = TRUE]
       ELSE /\ pc' = "laco"
            /\ linha' = [linha EXCEPT !.contado_erro = TRUE]
    /\ UNCHANGED <<arquivo, inicial, df, index, tentativa, pilha, local, excecao,
                   manip, resultado, registros_processados, registros_com_erro,
                   login_tentativa, exec, navegador, planilha_aberta, falhas>>
    /\ UNCHANGED <<credenciais, clique, quadro, colunas>>

\* if tentar_preencher_formulario(...): finalizar_atendimento(...) else count
\* the row as an error.
Retorno ==
    /\ pc = "retorno"
    /\ IF Verdadeiro(resultado)
       THEN /\ pc' = "finalizar"
            /\ linha' = [linha EXCEPT !.finalizar_chamado = TRUE]
            /\ UNCHANGED registros_com_erro
       ELSE /\ pc' = "laco"
            /\ linha' = [linha EXCEPT !.contado_erro = TRUE]
            /\ registros_com_erro' = registros_com_erro + 1
    /\ UNCHANGED <<arquivo, inicial, df, index, tentativa, pilha, local, excecao,
                   manip, resultado, registros_processados, login_tentativa, exec,
                   navegador, planilha_aberta, falhas>>
    /\ UNCHANGED <<credenciais, clique, quadro, colunas>>

\* finalizar_atendimento counting the row itself before it raises.
finalizar_atendimento_contando ==
    /\ pc = "finalizar"
    /\ \E o \in Resultados("falhou", "ok", {"falhou"}) :
         IF o = "ok"
         THEN /\ registros_processados' = registros_processados + 1
              /\ linha' = [linha EXCEPT !.contado_ok = TRUE]
              /\ pc' = "laco"
              /\ ContaPasso(0)
              /\ UNCHANGED <<df, arquivo, exec, excecao, manip, registros_com_erro>>
         ELSE /\ df' = [df EXCEPT ![index].obs = MSG_FINALIZACAO]
              /\ pc' = "propaga"
              /\ manip' = <<"main">>
              /\ UNCHANGED registros_processados
              /\ registros_com_erro' = registros_com_erro + 1
              /\ \E e \in Escritas(Custo(o, "ok")) :
                   /\ ContaEscrita(Custo(o, "ok"), e)
                   /\ IF e = "erro"
                      THEN /\ linha' = FalhouLinha([linha EXCEPT !.obs_anotada = TRUE])
                           /\ excecao' = "OSError"
                           /\ UNCHANGED <<arquivo, exec>>
                      ELSE /\ arquivo' = df'
                           /\ linha' = GravouLinha([linha EXCEPT !.obs_anotada = TRUE])
                           /\ exec' = [exec EXCEPT !.escreveu = TRUE]
                           /\ excecao' = "FinalizacaoError"
    /\ UNCHANGED <<inicial, index, tentativa, pilha, local, resultado,
                   login_tentativa, navegador>>
    /\ UNCHANGED <<credenciais, clique, quadro, colunas>>

\* finalizar_atendimento returns True, or calls log_error and raises
\* FinalizacaoError (or whatever log_error raised) into main()'s row loop.
finalizar_atendimento ==
    /\ pc = "finalizar"
    /\ \E o \in Resultados("falhou", "ok", {"falhou"}) :
         IF o = "ok"
         THEN /\ registros_processados' = registros_processados + 1
              /\ linha' = [linha EXCEPT !.contado_ok = TRUE]
              /\ pc' = "laco"
              /\ ContaPasso(0)
              /\ UNCHANGED <<df, arquivo, exec, excecao, manip>>
         ELSE /\ df' = [df EXCEPT ![index].obs = MSG_FINALIZACAO]
              /\ pc' = "propaga"
              /\ manip' = <<"main">>
              /\ UNCHANGED registros_processados
              /\ \E e \in Escritas(Custo(o, "ok")) :
                   /\ ContaEscrita(Custo(o, "ok"), e)
                   /\ IF e = "erro"
                      THEN /\ linha' = FalhouLinha([linha EXCEPT !.obs_anotada = TRUE])
                           /\ excecao' = "OSError"
                           /\ UNCHANGED <<arquivo, exec>>
                      ELSE /\ arquivo' = df'
                           /\ linha' = GravouLinha([linha EXCEPT !.obs_anotada = TRUE])
                           /\ exec' = [exec EXCEPT !.escreveu = TRUE]
                           /\ excecao' = "FinalizacaoError"
    /\ UNCHANGED <<inicial, index, tentativa, pilha, local, resultado,
                   registros_com_erro, login_tentativa, navegador>>
    /\ UNCHANGED <<credenciais, clique, quadro, colunas>>

\* ------------------------------------------------------------------------
\* main(): the end of the run
\* ------------------------------------------------------------------------
\* The finally clause without its driver.quit().
FinallySemQuit ==
    /\ pc = "finally"
    /\ UNCHANGED exec
    /\ navegador' = IF navegador = "morto" THEN "morto" ELSE "fechado"
    /\ pc' = IF excecao = "nenhuma" THEN "fim" ELSE "except"
    /\ UNCHANGED <<arquivo, inicial, df, index, tentativa, pilha, local, excecao,
                   manip, resultado, registros_processados, registros_com_erro,
                   login_tentativa, planilha_aberta, falhas, linha>>
    /\ UNCHANGED <<credenciais, clique, quadro, colunas>>

\* finally: driver.quit(), whose own exception is only logged.
Finally ==
    /\ pc = "finally"
    /\ exec' = [exec EXCEPT !.quits = @ + 1]
    /\ navegador' = IF navegador = "morto" THEN "morto" ELSE "fechado"
    /\ pc' = IF excecao = "nenhuma" THEN "fim" ELSE "except"
    /\ UNCHANGED <<arquivo, inicial, df, index, tentativa, pilha, local, excecao,
                   manip, resultado, registros_processados, registros_com_erro,
                   login_tentativa, planilha_aberta, falhas, linha>>
    /\ UNCHANGED <<credenciais, clique, quadro, colunas>>

\* except Exception of main(): log_error without a row, driver.quit() if
\* the driver was created, raise.
ExceptGeral ==
    /\ pc = "except"
    /\ exec' = IF navegador = "nenhum" THEN exec ELSE [exec EXCEPT !.quits = @ + 1]
    /\ pc' = "erro"
    /\ UNCHANGED <<arquivo, inicial, df, index, tentativa, pilha, local, excecao,
                   manip, resultado, registros_processados, registros_com_erro,
                   login_tentativa, navegador, planilha_aberta, falhas, linha>>
    /\ UNCHANGED <<credenciais, clique, quadro, colunas>>

\* ------------------------------------------------------------------------
\* Faults between the steps of a row
\* ------------------------------------------------------------------------
PcsDaLinha == {"pf", "consulta", "selecao_conta", "formulario", "desconhecida",
               "campos", "registrar", "confirmar", "captura", "retorno",
               "finalizar", "propaga"}

\* The browser dies: from now on every driver call raises.
NavegadorMorre ==
    /\ pc \in PcsDaLinha
    /\ PodeFalhar
    /\ navegador = "vivo"
    /\ navegador' = "morto"
    /\ falhas' = falhas + 1
    /\ exec' = [exec EXCEPT !.linha_da_falha = index]
    /\ UNCHANGED <<pc, arquivo, inicial, df, index, tentativa, pilha, local,
                   excecao, manip, resultado, registros_processados,
                   registros_com_erro, login_tentativa, planilha_aberta, linha>>
    /\ UNCHANGED <<credenciais, clique, quadro, colunas>>

Next ==
    \/ CarregarCredenciais
    \/ Inicio
    \/ login
    \/ load_excel_data
    \/ IniciarLinha
    \/ RelatorioFinal
    \/ preencher_formulario
    \/ TelaFormulario
    \/ TelaDesconhecida
    \/ TelaConsulta
    \/ TelaSelecao
    \/ PreencherCampos
    \/ ClicarRegistrar
    \/ ClicarConfirmar
    \/ CapturarProtocolo
    \/ TratarInterno
    \/ tentar_preencher_formulario
    \/ TratarMain
    \/ Retorno
    \/ finalizar_atendimento
    \/ Finally
    \/ ExceptGeral
    \/ NavegadorMorre

Spec == Init /\ [][Next]_vars

\* ------------------------------------------------------------------------
\* The click helpers, one call traced from entry to return
\* ------------------------------------------------------------------------
Funcoes == {"clicar_botao_consulta", "clicar_botao_abrir",
            "clicar_menu_cobranca", "clicar_botao_registro_chamado"}

\* The click methods of a round, in the order the helper tries them.
Metodos(f) ==
    IF f \in {"clicar_botao_consulta", "clicar_botao_abrir"}
    THEN <<"javascript", "click", "action_chains">>
    ELSE <<"javascript", "action_chains", "click", "remover_e_clicar">>

\* The except clause around a click method catches exception o:
\* 'except Exception' around all of them but the plain click, which is
\* guarded by 'except ElementClickInterceptedException' only.
CapturaLocal(m, o) == m # "click" \/ o = "interceptado"

\* The method tried after method number k failed and its except clause
\* caught the exception; 0 when the round is over. The removal of the
\* intercepting element is nested in the except clause of the plain click.
ProximoMetodo(f, k) ==
    IF k < Len(Metodos(f)) THEN k + 1 ELSE 0

\* while tentativas < max_tentativas
ContinuaLaco(t) == t < clique_max_tentativas

\* return v
RetornaClique(v, feito) ==
    clique' = [clique EXCEPT !.fase = "fim", !.retorno = v, !.completou = feito]

\* The end of a round that leaves tentativas as it was.
FimDaRodadaSemContar(ch) ==
    clique' = [clique EXCEPT !.fase = "laco", !.metodo = 0, !.chamadas = ch]

\* tentativas += 1, then the next round or return False: the end of the
\* round's try body and its 'except Exception' clause do the same.
FimDaRodada(ch) ==
    IF clique.tentativas + 1 < clique_max_tentativas
    THEN clique' = [clique EXCEPT !.fase = "laco", !.tentativas = @ + 1,
                                  !.metodo = 0, !.chamadas = ch]
    ELSE clique' = [clique EXCEPT !.fase = "fim", !.tentativas = @ + 1,
                                  !.retorno = "False", !.chamadas = ch]

InitClique ==
    /\ Init
    /\ arquivo = <<>>
    /\ credenciais = [existe |-> FALSE, username |-> "", password |-> ""]
    /\ colunas = Colunas

\* The helper is entered.
EntrarClique ==
    /\ clique = CliqueParado
    /\ \E f \in Funcoes :
         clique' = [CliqueParado EXCEPT !.funcao = f, !.fase = "localizar"]
    /\ UNCHANGED <<pc, arquivo, inicial, df, index, tentativa, pilha, local,
                   excecao, manip, resultado, registros_processados,
                   registros_com_erro, login_tentativa, navegador,
                   planilha_aberta, falhas, linha, exec, credenciais, quadro,
                   colunas>>

\* The waits for the element. clicar_menu_cobranca tries four XPaths under a
\* bare except and raises NoSuchElementException itself when none is found;
\* the others return False on TimeoutException. Whatever else is raised
\* meets the outer 'except Exception', which returns False.
LocalizarElemento ==
    /\ clique.fase = "localizar"
    /\ \E o \in {"ok", "timeout", "erro"} :
         IF o = "ok"
         THEN clique' = [clique EXCEPT !.fase = "rolar"]
         ELSE RetornaClique("False", FALSE)
    /\ UNCHANGED <<pc, arquivo, inicial, df, index, tentativa, pilha, local,
                   excecao, manip, resultado, registros_processados,
                   registros_com_erro, login_tentativa, navegador,
                   planilha_aberta, falhas, linha, exec, credenciais, quadro,
                   colunas>>

\* scrollIntoView before the loop, inside the outer try only.
RolarAteElemento ==
    /\ clique.fase = "rolar"
    /\ \E o \in {"ok", "erro"} :
         IF o = "ok"
         THEN clique' = [clique EXCEPT !.fase = "laco", !.tentativas = 0]
         ELSE RetornaClique("False", FALSE)
    /\ UNCHANGED <<pc, arquivo, inicial, df, index, tentativa, pilha, local,
                   excecao, manip, resultado, registros_processados,
                   registros_com_erro, login_tentativa, navegador,
                   planilha_aberta, falhas, linha, exec, credenciais, quadro,
                   colunas>>

\* The test of the while loop, and the 'return False' after it.
TestarLaco ==
    /\ clique.fase = "laco"
    /\ IF ContinuaLaco(clique.tentativas)
       THEN clique' = [clique EXCEPT !.fase = "metodo", !.metodo = 1,
                                     !.rodadas = @ + 1]
       ELSE RetornaClique("False", FALSE)
    /\ UNCHANGED <<pc, arquivo, inicial, df, index, tentativa, pilha, local,
                   excecao, manip, resultado, registros_processados,
                   registros_com_erro, login_tentativa, navegador,
                   planilha_aberta, falhas, linha, exec, credenciais, quadro,
                   colunas>>

\* One click method of the round.
TentarMetodo ==
    /\ clique.fase = "metodo"
    /\ \E o \in {"ok", "interceptado", "erro"} :
         LET m == Metodos(clique.funcao)[clique.metodo]
             ch == clique.chamadas + 1
             k == ProximoMetodo(clique.funcao, clique.metodo)
         IN  IF o = "ok"
             THEN clique' = [clique EXCEPT !.fase = "fim", !.retorno = "True",
                                           !.completou = TRUE, !.chamadas = ch]
             ELSE IF CapturaLocal(m, o) /\ k # 0
             THEN clique' = [clique EXCEPT !.metodo = k, !.chamadas = ch]
             ELSE FimDaRodada(ch)
    /\ UNCHANGED <<pc, arquivo, inicial, df, index, tentativa, pilha, local,
                   excecao, manip, resultado, registros_processados,
                   registros_com_erro, login_tentativa, navegador,
                   planilha_aberta, falhas, linha, exec, credenciais, quadro,
                   colunas>>

NextClique ==
    \/ EntrarClique
    \/ LocalizarElemento
    \/ RolarAteElemento
    \/ TestarLaco
    \/ TentarMetodo

SpecClique == InitClique /\ [][NextClique]_vars

\* ------------------------------------------------------------------------
\* selecionar_conta_por_cooperativa, one call from entry to return
\* ------------------------------------------------------------------------
\* The variables of main(), which a helper traced on its own leaves alone.
VarsDeMain == <<pc, arquivo, inicial, df, index, tentativa, pilha, local,
                excecao, manip, resultado, registros_processados,
                registros_com_erro, login_tentativa, navegador,
                planilha_aberta, falhas, linha, exec, credenciais, clique,
                colunas>>

\* Options of the account select beyond which no call is traced.
MaxOpcoes == 2

\* Cooperative codes, as the digits of row['Cooperativa'] and of the text
\* 'Coop: <code>' of an option.
Cooperativas == {<<3, 0, 4>>, <<3, 0, 4, 2>>, <<4, 0, 2, 7>>}

\* f"Coop: {cooperativa}" in texto_opcao, for an option of cooperative cod:
\* the text after 'Coop: ' begins with the digits of cooperativa.
TextoContem(cooperativa, cod) ==
    /\ Len(cooperativa) <= Len(cod)
    /\ SubSeq(cod, 1, Len(cooperativa)) = cooperativa

\* The first option of the loop on which the test holds; 0 when it ends
\* with conta_encontrada still False.
PrimeiraOpcao(cooperativa, opcoes) ==
    IF \E i \in 1..Len(opcoes) : TextoContem(cooperativa, opcoes[i])
    THEN CHOOSE i \in 1..Len(opcoes) :
            /\ TextoContem(cooperativa, opcoes[i])
            /\ \A j \in 1..(i - 1) : ~TextoContem(cooperativa, opcoes[j])
    ELSE 0

\* What the driver calls of one call end in: the waits and the click on the
\* select, select_by_visible_text, the assignment by JavaScript.
DesfechosDaConta ==
    [espera : {"ok", "falha"}, select : {"ok", "levanta"}, js : {"ok", "levanta"}]

\* The function without its 'if not conta_encontrada: return False'.
selecionar_conta_sem_encontrada(cooperativa, opcoes, sel, d) ==
    LET i == PrimeiraOpcao(cooperativa, opcoes)
    IN  IF d.espera # "ok"
        THEN [retorno |-> FALSE, selecionada |-> sel]
        ELSE IF i # 0 /\ (d.select = "ok" \/ d.js = "ok")
        THEN [retorno |-> TRUE, selecionada |-> i]
        ELSE [retorno |-> sel # 0, selecionada |-> sel]

\* selecionar_conta_por_cooperativa on a select showing opcoes with option
\* number sel selected (0: the placeholder, whose value is empty): the value
\* it returns and the option selected when it returns.
selecionar_conta_por_cooperativa(cooperativa, opcoes, sel, d) ==
    LET i == PrimeiraOpcao(cooperativa, opcoes)
    IN  IF d.espera # "ok" \/ i = 0
        THEN [retorno |-> FALSE, selecionada |-> sel]
        ELSE IF d.select = "ok" \/ d.js = "ok"
        THEN [retorno |-> TRUE, selecionada |-> i]
        ELSE [retorno |-> sel # 0, selecionada |-> sel]

\* The selects a call can meet.
Selects ==
    UNION { [1..n -> Cooperativas] : n \in 0..MaxOpcoes }

InitConta ==
    /\ Init
    /\ arquivo = <<>>
    /\ credenciais = [existe |-> FALSE, username |-> "", password |-> ""]
    /\ colunas = Colunas

\* The function is entered for a row, on some select.
EntrarConta ==
    /\ quadro = QuadroParado
    /\ \E c \in Cooperativas, os \in Selects :
         \E sel \in 0..Len(os) :
            quadro' = [funcao |-> "selecionar_conta_por_cooperativa",
                       cooperativa |-> c, opcoes |-> os, selecionada |-> sel,
                       antes |-> sel, retorno |-> NENHUM, fim |-> FALSE,
                       obs |-> NaN, salva |-> FALSE, falha_escrita |-> FALSE,
                       cobranca |-> FALSE, registro |-> FALSE]
    /\ UNCHANGED VarsDeMain

\* The whole call.
SelecionarConta ==
    /\ quadro.funcao = "selecionar_conta_por_cooperativa"
    /\ quadro.retorno = NENHUM
    /\ \E d \in DesfechosDaConta :
         LET r == selecionar_conta_por_cooperativa(
                      quadro.cooperativa, quadro.opcoes, quadro.selecionada, d)
         IN  quadro' = [quadro EXCEPT
                          !.retorno = IF r.retorno THEN "True" ELSE "False",
                          !.selecionada = r.selecionada]
    /\ UNCHANGED VarsDeMain

\* The branch of preencher_formulario that made the call: on False the
\* note and the save (a save that raises goes to the outer except clause,
\* which notes its own message and saves again); on True the check of the
\* select's value, the Cobrança menu and the register-ticket button.
AposSelecionarConta ==
    /\ quadro.funcao = "selecionar_conta_por_cooperativa"
    /\ quadro.retorno # NENHUM
    /\ ~quadro.fim
    /\ IF quadro.retorno = "False"
       THEN \E e \in {"ok", "erro"}, e2 \in BOOLEAN :
               quadro' = IF e = "ok"
                         THEN [quadro EXCEPT !.fim = TRUE, !.obs = MSG_CONTA,
                                             !.salva = TRUE]
                         ELSE [quadro EXCEPT !.fim = TRUE, !.obs = MSG_ERRO_GERAL,
                                             !.falha_escrita = TRUE, !.salva = e2]
       ELSE \E o \in {"erro_verificar", "cobranca_falhou", "registro_falhou", "ok"} :
               quadro' = [quadro EXCEPT
                  !.fim = TRUE,
                  !.obs = CASE o = "erro_verificar" -> MSG_VERIF_CONTA
                            [] o = "cobranca_falhou" -> MSG_COBRANCA
                            [] o = "registro_falhou" -> MSG_REGISTRO
                            [] OTHER -> NaN,
                  !.salva = o # "ok",
                  !.cobranca = o \in {"registro_falhou", "ok"},
                  !.registro = o = "ok"]
    /\ UNCHANGED VarsDeMain

NextConta ==
    \/ EntrarConta
    \/ SelecionarConta
    \/ AposSelecionarConta

SpecConta == InitConta /\ [][NextConta]_vars

\* ------------------------------------------------------------------------
\* The description typed into the form, for a row that earlier runs left
\* in the file
\* ------------------------------------------------------------------------
\* The notes the program writes into 'Observação'.
Notas == {MSG_MAX_TENTATIVAS, MSG_CONTA, MSG_CONTA_VAZIA, MSG_VERIF_CONTA,
          MSG_COBRANCA, MSG_REGISTRO, MSG_FORM_NAO_ABRIU, MSG_CONSULTAR,
          MSG_PESSOA, MSG_ABRIR, MSG_TELA_NAO_MUDOU, MSG_DOCUMENTO,
          MSG_ERRO_DOCUMENTO, MSG_ERRO_GERAL, MSG_ERRO_CAMPOS,
          MSG_APOS_TENTATIVAS, MSG_FINALIZACAO, MSG_PROCESSAMENTO}

\* MENSAGEM_PADRAO
MENSAGEM_PADRAO == "Chamado registrado via automação"

\* What the user can have written in the row's 'Observação' cell: nothing
\* (read as NaN), blanks, the letters nan, a short text, a text of 11
\* characters of which 5 are not blanks, texts of 9 and of 10 characters,
\* a longer text.
CelulasDoUsuario ==
    {NaN, "   ", "nan", "NAN", "Nan", " ligar ", "   ligar   ", "Ver conta",
     "Sem boleto", "Cliente pediu a segunda via do boleto"}

\* str(x).strip()
Aparado(t) ==
    CASE t = NaN -> "nan"
      [] t = "   " -> ""
      [] t = " ligar " -> "ligar"
      [] t = "   ligar   " -> "ligar"
      [] OTHER -> t

\* x.lower() = 'nan', for the texts in use
MinusculasNan(t) == t \in {"nan", "NAN", "Nan"}

\* len(x), for the stripped texts in use
Comprimento(t) ==
    CASE t = MSG_MAX_TENTATIVAS -> 51 []
         t = MSG_CONTA -> 25 []
         t = MSG_CONTA_VAZIA -> 38 []
         t = MSG_VERIF_CONTA -> 34 []
         t = MSG_COBRANCA -> 32 []
         t = MSG_REGISTRO -> 47 []
         t = MSG_FORM_NAO_ABRIU -> 58 []
         t = MSG_CONSULTAR -> 34 []
         t = MSG_PESSOA -> 21 []
         t = MSG_ABRIR -> 30 []
         t = MSG_TELA_NAO_MUDOU -> 57 []
         t = MSG_DOCUMENTO -> 28 []
         t = MSG_ERRO_DOCUMENTO -> 27 []
         t = MSG_ERRO_GERAL -> 41 []
         t = MSG_ERRO_CAMPOS -> 38 []
         t = MSG_APOS_TENTATIVAS -> 22 []
         t = MSG_FINALIZACAO -> 34 []
         t = MSG_PROCESSAMENTO -> 33 []
         t = "" -> 0 []
         t = "nan" -> 3 []
         t = "NAN" -> 3 []
         t = "Nan" -> 3 []
         t = "Ver conta" -> 9 []
         t = "Sem boleto" -> 10 []
         t = "ligar" -> 5 []
         t = "Cliente pediu a segunda via do boleto" -> 37

\* The choice of descricao with 'len(observacao) <= 10'.
descricao_ate_dez(celula) ==
    LET observacao == Aparado(celula)
    IN  IF \/ celula = NaN
           \/ MinusculasNan(observacao)
           \/ observacao = ""
           \/ Comprimento(observacao) <= 10
        THEN MENSAGEM_PADRAO
        ELSE observacao

\* descricao, from the row's 'Observação' cell as load_excel_data read it.
descricao_de(celula) ==
    LET observacao == Aparado(celula)
    IN  IF \/ celula = NaN
           \/ MinusculasNan(observacao)
           \/ observacao = ""
           \/ Comprimento(observacao) < 10
        THEN MENSAGEM_PADRAO
        ELSE observacao

InitDescricao ==
    /\ Init
    /\ arquivo = <<>>
    /\ credenciais = [existe |-> FALSE, username |-> "", password |-> ""]
    /\ colunas = Colunas

\* The user writes the row.
EntrarDescricao ==
    /\ quadro = QuadroParado
    /\ \E c \in CelulasDoUsuario :
         quadro' = [funcao |-> "descricao", do_usuario |-> c, observacao |-> c,
                    descricao |-> NENHUM]
    /\ UNCHANGED VarsDeMain

\* An earlier run gave the row up: a note went into 'Observação' and into
\* the file.
ExecucaoAnterior ==
    /\ quadro.funcao = "descricao"
    /\ quadro.descricao = NENHUM
    /\ quadro.observacao = quadro.do_usuario
    /\ \E n \in Notas : quadro' = [quadro EXCEPT !.observacao = n]
    /\ UNCHANGED VarsDeMain

\* This run reads the file and fills the Descrição field for the row.
PreencherDescricao ==
    /\ quadro.funcao = "descricao"
    /\ quadro.descricao = NENHUM
    /\ quadro' = [quadro EXCEPT !.descricao = descricao_de(quadro.observacao)]
    /\ UNCHANGED VarsDeMain

NextDescricao ==
    \/ EntrarDescricao
    \/ ExecucaoAnterior
    \/ PreencherDescricao

SpecDescricao == InitDescricao /\ [][NextDescricao]_vars

\* ------------------------------------------------------------------------
\* main_corrigido.py: the row loop of main()
\* ------------------------------------------------------------------------
MaxCorrigido == 2

InitCorrigido ==
    /\ Init
    /\ arquivo = <<>>
    /\ credenciais = [existe |-> FALSE, username |-> "", password |-> ""]
    /\ colunas = Colunas

\* total_registros = len(df); registros_processados = 0;
\* registros_com_erro = 0
EntrarCorrigido ==
    /\ quadro = QuadroParado
    /\ \E n \in 1..MaxCorrigido :
         quadro' = [funcao |-> "main_corrigido", passo |-> "laco",
                    total_registros |-> n, index |-> 0,
                    registros_processados |-> 0, registros_com_erro |-> 0,
                    obs |-> [i \in 1..n |-> NaN],
                    finalizada |-> FALSE, contagens |-> 0]
    /\ UNCHANGED VarsDeMain

\* for index, row in df.iterrows()
IniciarLinhaCorrigido ==
    /\ quadro.funcao = "main_corrigido"
    /\ quadro.passo = "laco"
    /\ quadro.index < quadro.total_registros
    /\ quadro' = [quadro EXCEPT !.index = @ + 1, !.passo = "tentar",
                                !.finalizada = FALSE, !.contagens = 0]
    /\ UNCHANGED VarsDeMain

\* protocolo = tentar_preencher_formulario(...): a protocol, None after a
\* note in the row, or an exception; 'if protocolo ... else' counts the
\* row without a protocol.
TentarCorrigido ==
    /\ quadro.funcao = "main_corrigido"
    /\ quadro.passo = "tentar"
    /\ \E o \in {"protocolo", "None", "levanta"} :
         quadro' =
           CASE o = "protocolo" -> [quadro EXCEPT !.passo = "finalizar"]
             [] o = "None" ->
                  [quadro EXCEPT !.passo = "reiniciar",
                                 !.obs[quadro.index] = MSG_ERRO_CAMPOS,
                                 !.registros_com_erro = @ + 1,
                                 !.contagens = @ + 1]
             [] o = "levanta" -> [quadro EXCEPT !.passo = "except"]
    /\ UNCHANGED VarsDeMain

\* if finalizar_atendimento(...): registros_processados += 1, else
\* registros_com_erro += 1. finalizar_atendimento returns False after
\* log_error, whose to_excel can raise.
FinalizarCorrigido ==
    /\ quadro.funcao = "main_corrigido"
    /\ quadro.passo = "finalizar"
    /\ \E o \in {"True", "False", "levanta"} :
         quadro' =
           CASE o = "True" ->
                  [quadro EXCEPT !.passo = "reiniciar",
                                 !.finalizada = TRUE,
                                 !.registros_processados = @ + 1,
                                 !.contagens = @ + 1]
             [] o = "False" ->
                  [quadro EXCEPT !.passo = "reiniciar",
                                 !.obs[quadro.index] = MSG_FINALIZACAO,
                                 !.registros_com_erro = @ + 1,
                                 !.contagens = @ + 1]
             [] o = "levanta" ->
                  [quadro EXCEPT !.passo = "except",
                                 !.obs[quadro.index] = MSG_FINALIZACAO]
    /\ UNCHANGED VarsDeMain

\* driver.get(BASE_URL) and the wait for the body, inside the try of the
\* row; esperar_spinner_desaparecer catches its own exceptions.
ReiniciarCorrigido ==
    /\ quadro.funcao = "main_corrigido"
    /\ quadro.passo = "reiniciar"
    /\ \E o \in {"ok", "levanta"} :
         quadro' = [quadro EXCEPT !.passo = IF o = "ok" THEN "laco" ELSE "except"]
    /\ UNCHANGED VarsDeMain

\* except Exception: registros_com_erro += 1, log_error, the reload whose
\* exception is only logged, continue. An exception of log_error leaves
\* the loop.
TratarCorrigido ==
    /\ quadro.funcao = "main_corrigido"
    /\ quadro.passo = "except"
    /\ \E o \in {"ok", "levanta"} :
         quadro' = [quadro EXCEPT !.passo = IF o = "ok" THEN "laco" ELSE "erro",
                                  !.obs[quadro.index] = MSG_PROCESSAMENTO,
                                  !.registros_com_erro = @ + 1,
                                  !.contagens = @ + 1]
    /\ UNCHANGED VarsDeMain

\* The final report.
RelatorioCorrigido ==
    /\ quadro.funcao = "main_corrigido"
    /\ quadro.passo = "laco"
    /\ quadro.index = quadro.total_registros
    /\ quadro' = [quadro EXCEPT !.passo = "relatorio"]
    /\ UNCHANGED VarsDeMain

NextCorrigido ==
    \/ EntrarCorrigido
    \/ IniciarLinhaCorrigido
    \/ TentarCorrigido
    \/ FinalizarCorrigido
    \/ ReiniciarCorrigido
    \/ TratarCorrigido
    \/ RelatorioCorrigido

SpecCorrigido == InitCorrigido /\ [][NextCorrigido]_vars

\* ------------------------------------------------------------------------
\* login(), attempt by attempt
\* ------------------------------------------------------------------------
\* The try blocks of an attempt, the outermost first: 1 is the try of the
\* loop body, 2 the try around the fields and the button, 3 the try around
\* the wait for the QR code. Level 3 has one clause, for TimeoutException;
\* levels 2 and 1 end with 'except Exception'.
Captura(n, e) == n = 3 => e = "TimeoutException"

\* An except clause that raises again what it caught.
TipoRelancado(e) == e

\* What an except clause of login() raises on the last attempt.
TipoLevantado(e) == "LoginError"

\* Exception e raised at level n in attempt t: the clause that catches it
\* continues the loop before the last attempt and raises on the last one,
\* into the level around it.
RECURSIVE Propagar(_, _, _)
Propagar(n, e, t) ==
    IF n = 0 THEN [fim |-> "levanta", tipo |-> e]
    ELSE IF ~Captura(n, e) THEN Propagar(n - 1, e, t)
    ELSE IF t < login_max_tentativas - 1 THEN [fim |-> "continue", tipo |-> NENHUM]
    ELSE Propagar(n - 1, TipoLevantado(e), t)

InitLogin ==
    /\ Init
    /\ arquivo = <<>>
    /\ credenciais = [existe |-> FALSE, username |-> "", password |-> ""]
    /\ colunas = Colunas

\* login(driver, username, password)
EntrarLogin ==
    /\ quadro = QuadroParado
    /\ quadro' = [funcao |-> "login", fase |-> "carregar", tentativa |-> 0,
                  cargas |-> 0, historia |-> <<>>, retorno |-> NENHUM,
                  excecao |-> NENHUM]
    /\ UNCHANGED VarsDeMain

\* The frame after exception e at level n in phase f.
FalhaNoLogin(f, n, e) ==
    LET p == Propagar(n, e, quadro.tentativa)
        h == Append(quadro.historia, <<f, e>>)
    IN  IF p.fim = "levanta"
        THEN [quadro EXCEPT !.fase = "fim", !.historia = h,
                            !.retorno = "levanta", !.excecao = p.tipo]
        ELSE IF quadro.tentativa + 1 < login_max_tentativas
        THEN [quadro EXCEPT !.fase = "carregar", !.historia = h,
                            !.tentativa = @ + 1]
        ELSE [quadro EXCEPT !.fase = "fim", !.historia = h,
                            !.retorno = "levanta", !.excecao = "LoginError"]

\* driver.get(BASE_URL) and the wait for the body.
CarregarBase ==
    /\ quadro.funcao = "login"
    /\ quadro.fase = "carregar"
    /\ \E o \in {"ok", "TimeoutException", "WebDriverException"} :
         LET q == [quadro EXCEPT !.cargas = @ + 1]
         IN  quadro' = IF o = "ok" THEN [q EXCEPT !.fase = "verificar"]
                       ELSE [FalhaNoLogin("carregar", 1, o) EXCEPT !.cargas = q.cargas]
    /\ UNCHANGED VarsDeMain

\* The elements of a logged session: all present, return True; one absent,
\* NoSuchElementException into the clause that types the credentials.
VerificarLogado ==
    /\ quadro.funcao = "login"
    /\ quadro.fase = "verificar"
    /\ \E o \in {"logado", "nao_logado", "WebDriverException"} :
         quadro' =
           CASE o = "logado" -> [quadro EXCEPT !.fase = "fim", !.retorno = "True"]
             [] o = "nao_logado" -> [quadro EXCEPT !.fase = "campos"]
             [] OTHER -> FalhaNoLogin("verificar", 1, o)
    /\ UNCHANGED VarsDeMain

\* username, password, the login button.
PreencherLogin ==
    /\ quadro.funcao = "login"
    /\ quadro.fase = "campos"
    /\ \E o \in {"ok", "TimeoutException", "NoSuchElementException",
                 "WebDriverException"} :
         quadro' = IF o = "ok" THEN [quadro EXCEPT !.fase = "qr"]
                   ELSE FalhaNoLogin("campos", 2, o)
    /\ UNCHANGED VarsDeMain

\* The wait for the QR code to go and for the elements of a logged session.
AguardarQR ==
    /\ quadro.funcao = "login"
    /\ quadro.fase = "qr"
    /\ \E o \in {"ok", "TimeoutException", "WebDriverException"} :
         quadro' = IF o = "ok"
                   THEN [quadro EXCEPT !.fase = "fim", !.retorno = "True"]
                   ELSE FalhaNoLogin("qr", 3, o)
    /\ UNCHANGED VarsDeMain

NextLogin ==
    \/ EntrarLogin
    \/ CarregarBase
    \/ VerificarLogado
    \/ PreencherLogin
    \/ AguardarQR

\* Every wait of login() has a timeout: a call that was made goes on to
\* its end.
SpecLogin == InitLogin /\ [][NextLogin]_vars /\ WF_vars(NextLogin)

\* ------------------------------------------------------------------------
\* The consult screen: the document typed, read back and compared
\* ------------------------------------------------------------------------
\* Texts of this part are sequences of characters.
Algarismos == {"0", "1", "2", "3", "4", "5", "6", "7", "8", "9"}

EhDigito(c) == c \in Algarismos

\* ''.join(filter(str.isdigit, t))
Digitos(t) == SelectSeq(t, EhDigito)

\* t.strip()
RECURSIVE SemBrancos(_)
SemBrancos(t) ==
    IF t = <<>> THEN t
    ELSE IF Head(t) = " " THEN SemBrancos(Tail(t))
    ELSE IF t[Len(t)] = " " THEN SemBrancos(SubSeq(t, 1, Len(t) - 1))
    ELSE t

\* formatar_documento with the third group of the CPF one character short.
formatar_documento_grupo_curto(documento) ==
    LET n == Digitos(documento)
    IN  IF Len(n) = 11
        THEN SubSeq(n, 1, 3) \o <<".">> \o SubSeq(n, 4, 6) \o <<".">>
             \o SubSeq(n, 7, 8) \o <<"-">> \o SubSeq(n, 9, 11)
        ELSE IF Len(n) = 14
        THEN SubSeq(n, 1, 2) \o <<".">> \o SubSeq(n, 3, 5) \o <<".">>
             \o SubSeq(n, 6, 8) \o <<"/">> \o SubSeq(n, 9, 12) \o <<"-">>
             \o SubSeq(n, 13, 14)
        ELSE documento

\* formatar_documento
formatar_documento(documento) ==
    LET n == Digitos(documento)
    IN  IF Len(n) = 11
        THEN SubSeq(n, 1, 3) \o <<".">> \o SubSeq(n, 4, 6) \o <<".">>
             \o SubSeq(n, 7, 9) \o <<"-">> \o SubSeq(n, 10, 11)
        ELSE IF Len(n) = 14
        THEN SubSeq(n, 1, 2) \o <<".">> \o SubSeq(n, 3, 5) \o <<".">>
             \o SubSeq(n, 6, 8) \o <<"/">> \o SubSeq(n, 9, 12) \o <<"-">>
             \o SubSeq(n, 13, 14)
        ELSE documento

\* str(row['Documento do cooperado']) of the rows: a CPF with and without
\* punctuation, one between blanks, a CNPJ, a number too short, an empty
\* cell.
CPF_PONTUADO ==
    <<"5", "2", "9", ".", "9", "8", "2", ".", "2", "4", "7", "-",
           "2", "5">>

CPF_SO_DIGITOS ==
    <<"5", "2", "9", "9", "8", "2", "2", "4", "7", "2", "5">>

CPF_ENTRE_BRANCOS ==
    <<" ", "5", "2", "9", "9", "8", "2", "2", "4", "7", "2", "5",
           " ">>

CNPJ_PONTUADO ==
    <<"1", "1", ".", "2", "2", "2", ".", "3", "3", "3", "/", "0",
           "0", "0", "1", "-", "8", "1">>

Documentos ==
    {CPF_PONTUADO, CPF_SO_DIGITOS, CPF_ENTRE_BRANCOS, CNPJ_PONTUADO,
     <<"3", "0", "4">>, <<"3", "0", "4", "-", "2">>, <<"n", "a", "n">>}

\* What the field holds after the characters of t were sent to it: all of
\* them, its digits only, all but the last, the digits in another order,
\* nothing.
Campos_documento == {"guarda", "so_digitos", "perde", "troca", "vazio"}

ValorAposDigitar(t, b) ==
    CASE b = "guarda" -> t
      [] b = "so_digitos" -> Digitos(t)
      [] b = "perde" -> IF t = <<>> THEN t ELSE SubSeq(t, 1, Len(t) - 1)
      [] b = "troca" -> IF Len(t) < 2 THEN t
                        ELSE <<t[2], t[1]>> \o SubSeq(t, 3, Len(t))
      [] b = "vazio" -> <<>>

\* The test made before the consult button, as a test that the field is
\* not empty.
DocumentoPreenchido(valor_preenchido, numeros) == valor_preenchido # <<>>

\* valor_preenchido_numeros == numeros
DocumentoConfere(valor_preenchido, numeros) == Digitos(valor_preenchido) = numeros

InitDocumento ==
    /\ Init
    /\ arquivo = <<>>
    /\ credenciais = [existe |-> FALSE, username |-> "", password |-> ""]
    /\ colunas = Colunas

\* The consult branch is entered for a row.
EntrarDocumento ==
    /\ quadro = QuadroParado
    /\ \E d \in Documentos :
         quadro' = [funcao |-> "consulta", passo |-> "digitar", documento |-> d,
                    numeros |-> <<>>, valor_preenchido |-> <<>>,
                    obs |-> NaN, salva |-> FALSE,
                    consultar |-> FALSE, mensagem |-> NENHUM,
                    leitura |-> NENHUM, abrir |-> FALSE]
    /\ UNCHANGED VarsDeMain

\* numeros and doc_formatado, the characters sent one by one, the value
\* read back and, if it is empty, assigned by JavaScript and read again.
DigitarDocumento ==
    /\ quadro.funcao = "consulta"
    /\ quadro.passo = "digitar"
    /\ LET doc_original == SemBrancos(quadro.documento)
           numeros == Digitos(doc_original)
           doc_formatado == formatar_documento(numeros)
       IN  \E b \in Campos_documento, js \in {"ok", "nada", "levanta"} :
              LET v == ValorAposDigitar(doc_formatado, b)
              IN  quadro' =
                    IF v # <<>> \/ js = "ok"
                    THEN [quadro EXCEPT !.passo = "comparar", !.numeros = numeros,
                            !.valor_preenchido = IF v # <<>> THEN v ELSE doc_formatado]
                    ELSE IF js = "nada"
                    THEN [quadro EXCEPT !.passo = "comparar", !.numeros = numeros]
                    ELSE [quadro EXCEPT !.passo = "fim", !.numeros = numeros,
                            !.obs = MSG_ERRO_DOCUMENTO, !.salva = TRUE]
    /\ UNCHANGED VarsDeMain

\* The text the portal shows when the document is of no cooperative member.
MENSAGEM_NAO_COOPERADA ==
    <<"Pessoa", "não", "identificada", "como", "cooperada!">>

\* What the h6 of the consult card can show after the consult click, as
\* sequences of words; NENHUM: the element is not in the page.
MensagensDoPortal ==
    {NENHUM, <<>>, MENSAGEM_NAO_COOPERADA,
     <<"Atenção:">> \o MENSAGEM_NAO_COOPERADA \o <<"Verifique", "o", "documento.">>,
     <<"Pessoa", "não", "identificada">>}

\* m in t
Contem(t, m) ==
    \E i \in 1..(Len(t) - Len(m) + 1) : SubSeq(t, i, i + Len(m) - 1) = m

\* The test of the message as an equality of texts.
verificar_pessoa_mensagem_igual(mensagem, leitura) ==
    /\ leitura = "ok"
    /\ mensagem # NENHUM
    /\ mensagem = MENSAGEM_NAO_COOPERADA

\* verificar_pessoa_nao_encontrada: True when the element is there and its
\* text contains the message; False otherwise, and when a driver call raised.
verificar_pessoa_nao_encontrada(mensagem, leitura) ==
    /\ leitura = "ok"
    /\ mensagem # NENHUM
    /\ Contem(mensagem, MENSAGEM_NAO_COOPERADA)

\* if valor_preenchido_numeros == numeros: consult, look for the person,
\* open; else the note, the save and None (a save that raises goes to the
\* except clause of the branch, which notes its own message and saves).
CompararDocumento ==
    /\ quadro.funcao = "consulta"
    /\ quadro.passo = "comparar"
    /\ IF DocumentoConfere(quadro.valor_preenchido, quadro.numeros)
       THEN \E clicou \in BOOLEAN, m \in MensagensDoPortal,
               leitura \in {"ok", "levanta"}, abriu \in BOOLEAN,
               e \in {"ok", "erro"}, e2 \in BOOLEAN :
               LET q == [quadro EXCEPT !.passo = "fim", !.consultar = TRUE]
                   nota == IF ~clicou THEN MSG_CONSULTAR
                           ELSE IF verificar_pessoa_nao_encontrada(m, leitura)
                           THEN MSG_PESSOA
                           ELSE IF ~abriu THEN MSG_ABRIR
                           ELSE NaN
                   r == IF ~clicou THEN q
                        ELSE IF verificar_pessoa_nao_encontrada(m, leitura)
                        THEN [q EXCEPT !.mensagem = m, !.leitura = leitura]
                        ELSE [q EXCEPT !.mensagem = m, !.leitura = leitura,
                                       !.abrir = TRUE]
               IN  quadro' =
                     IF nota = NaN THEN r
                     ELSE IF e = "ok" THEN [r EXCEPT !.obs = nota, !.salva = TRUE]
                     ELSE [r EXCEPT !.obs = MSG_ERRO_DOCUMENTO, !.salva = e2]
       ELSE \E e \in {"ok", "erro"}, e2 \in BOOLEAN :
               quadro' = IF e = "ok"
                         THEN [quadro EXCEPT !.passo = "fim", !.obs = MSG_DOCUMENTO,
                                             !.salva = TRUE]
                         ELSE [quadro EXCEPT !.passo = "fim",
                                             !.obs = MSG_ERRO_DOCUMENTO,
                                             !.salva = e2]
    /\ UNCHANGED VarsDeMain

NextDocumento ==
    \/ EntrarDocumento
    \/ DigitarDocumento
    \/ CompararDocumento

SpecDocumento == InitDocumento /\ [][NextDocumento]_vars

\* ------------------------------------------------------------------------
\* formatar_documento on its own
\* ------------------------------------------------------------------------
\* The longest run of digits an argument holds.
MaxDigitos == 16

\* The run of k digits whose i-th digit is the last digit of passo * i.
Corrida(passo, k) ==
    [i \in 1..k |->
        <<"0", "1", "2", "3", "4", "5", "6", "7", "8", "9">>[((passo * i) % 10) + 1]]

\* A text with the digits n, written as the cell of a spreadsheet may hold
\* them: bare, with a point after every third digit, between blanks,
\* followed by letters.
RECURSIVE ComPontos(_)
ComPontos(n) ==
    IF Len(n) <= 3 THEN n
    ELSE SubSeq(n, 1, 3) \o <<".">> \o ComPontos(SubSeq(n, 4, Len(n)))

Escrito(n, estilo) ==
    CASE estilo = "digitos" -> n
      [] estilo = "pontos" -> ComPontos(n)
      [] estilo = "brancos" -> <<" ">> \o n \o <<" ">>
      [] estilo = "letras" -> n \o <<"-", "X">>

\* The arguments of the calls.
ArgumentosDeFormatar ==
    { Escrito(Corrida(passo, k), estilo) :
        passo \in {0, 7}, k \in 0..MaxDigitos,
        estilo \in {"digitos", "pontos", "brancos", "letras"} }

InitFormatar ==
    /\ Init
    /\ arquivo = <<>>
    /\ credenciais = [existe |-> FALSE, username |-> "", password |-> ""]
    /\ colunas = Colunas

\* formatar_documento is called with a text.
EntrarFormatar ==
    /\ quadro = QuadroParado
    /\ \E d \in ArgumentosDeFormatar :
         quadro' = [funcao |-> "formatar_documento", documento |-> d,
                    feito |-> FALSE, retorno |-> <<>>]
    /\ UNCHANGED VarsDeMain

\* The call returns.
Formatar ==
    /\ quadro.funcao = "formatar_documento"
    /\ ~quadro.feito
    /\ quadro' = [quadro EXCEPT !.feito = TRUE,
                                !.retorno = formatar_documento(quadro.documento)]
    /\ UNCHANGED VarsDeMain

NextFormatar ==
    \/ EntrarFormatar
    \/ Formatar

SpecFormatar == InitFormatar /\ [][NextFormatar]_vars

\* ------------------------------------------------------------------------
\* normalizar_servico on its own
\* ------------------------------------------------------------------------
\* The values of SERVICOS_VALIDOS, as sequences of characters.
DUVIDA_NEGOCIAL ==
    <<"D", "ú", "v", "i", "d", "a", " ", "N", "e", "g",
        "o", "c", "i", "a", "l">>

DUVIDA_TECNICA ==
    <<"D", "ú", "v", "i", "d", "a", " ", "T", "é", "c",
        "n", "i", "c", "a">>

AMBIENTE_DE_TESTES ==
    <<"A", "m", "b", "i", "e", "n", "t", "e", " ",
        "d", "e", " ", "t", "e", "s", "t", "e", "s">>

ERRO_DE_DOCUMENTACAO ==
    <<"E", "r", "r", "o", " ", "D", "e", " ", "D",
        "o", "c", "u", "m", "e", "n", "t", "a", "ç", "ã", "o">>

INTEGRACAO_IMCOMPLETA ==
    <<"I", "n", "t", "e", "g", "r", "a", "ç", "ã",
        "o", " ", "I", "m", "c", "o", "m", "p", "l", "e", "t", "a">>

SUGESTAO_DE_MELHORIA ==
    <<"S", "u", "g", "e", "s", "t", "ã", "o", " ",
        "D", "e", " ", "M", "e", "l", "h", "o", "r", "i", "a">>

\* SERVICOS_VALIDOS, in the order of the source: <<key, value>>.
SERVICOS_VALIDOS ==
    <<
      <<<<"d", "ú", "v", "i", "d", "a", " ", "n", "e", "g", "o", "c", "i",
        "a", "l">>, 
         DUVIDA_NEGOCIAL>>,
      <<<<"d", "u", "v", "i", "d", "a", " ", "n", "e", "g", "o", "c", "i",
        "a", "l">>, 
         DUVIDA_NEGOCIAL>>,
      <<<<"d", "u", "v", "i", "d", "a", " ", "n", "e", "g", "o", "c", "i",
        "a", "c", "a", "o">>, 
         DUVIDA_NEGOCIAL>>,
      <<<<"d", "ú", "v", "i", "d", "a", " ", "n", "e", "g", "o", "c", "i",
        "a", "c", "a", "o">>, 
         DUVIDA_NEGOCIAL>>,
      <<<<"d", "u", "v", "i", "d", "a", " ", "d", "e", " ", "n", "e", "g",
        "o", "c", "i", "o">>, 
         DUVIDA_NEGOCIAL>>,
      <<<<"d", "u", "v", "i", "d", "a", " ", "n", "e", "g", "o", "c", "i",
        "o">>, 
         DUVIDA_NEGOCIAL>>,
      <<<<"d", "ú", "v", "i", "d", "a", " ", "t", "é", "c", "n", "i", "c",
        "a">>, 
         DUVIDA_TECNICA>>,
      <<<<"d", "u", "v", "i", "d", "a", " ", "t", "e", "c", "n", "i", "c",
        "a">>, 
         DUVIDA_TECNICA>>,
      <<<<"d", "u", "v", "i", "d", "a", " ", "d", "e", " ", "t", "e", "c",
        "n", "i", "c", "a">>, 
         DUVIDA_TECNICA>>,
      <<<<"a", "m", "b", "i", "e", "n", "t", "e", " ", "d", "e", " ", "t",
        "e", "s", "t", "e", "s">>, 
         AMBIENTE_DE_TESTES>>,
      <<<<"a", "m", "b", "i", "e", "n", "t", "e", " ", "t", "e", "s", "t",
        "e", "s">>, 
         AMBIENTE_DE_TESTES>>,
      <<<<"a", "m", "b", "i", "e", "n", "t", "e", " ", "d", "e", " ", "t",
        "e", "s", "t", "e">>, 
         AMBIENTE_DE_TESTES>>,
      <<<<"a", "m", "b", "i", "e", "n", "t", "e", " ", "t", "e", "s", "t",
        "e">>, 
         AMBIENTE_DE_TESTES>>,
      <<<<"e", "r", "r", "o", " ", "d", "e", " ", "d", "o", "c", "u", "m",
        "e", "n", "t", "a", "ç", "ã", "o">>, 
         ERRO_DE_DOCUMENTACAO>>,
      <<<<"e", "r", "r", "o", " ", "d", "e", " ", "d", "o", "c", "u", "m",
        "e", "n", "t", "a", "c", "a", "o">>, 
         ERRO_DE_DOCUMENTACAO>>,
      <<<<"e", "r", "r", "o", " ", "d", "o", "c", "u", "m", "e", "n", "t",
        "a", "c", "a", "o">>, 
         ERRO_DE_DOCUMENTACAO>>,
      <<<<"e", "r", "r", "o", " ", "d", "o", "c", "u", "m", "e", "n", "t",
        "a", "ç", "ã", "o">>, 
         ERRO_DE_DOCUMENTACAO>>,
      <<<<"i", "n", "t", "e", "g", "r", "a", "ç", "ã", "o", " ", "i", "m",
        "c", "o", "m", "p", "l", "e", "t", "a">>, 
         INTEGRACAO_IMCOMPLETA>>,
      <<<<"i", "n", "t", "e", "g", "r", "a", "c", "a", "o", " ", "i", "m",
        "c", "o", "m", "p", "l", "e", "t", "a">>, 
         INTEGRACAO_IMCOMPLETA>>,
      <<<<"i", "n", "t", "e", "g", "r", "a", "c", "a", "o", " ", "i", "n",
        "c", "o", "m", "p", "l", "e", "t", "a">>, 
         INTEGRACAO_IMCOMPLETA>>,
      <<<<"i", "n", "t", "e", "g", "r", "a", "ç", "ã", "o", " ", "i", "n",
        "c", "o", "m", "p", "l", "e", "t", "a">>, 
         INTEGRACAO_IMCOMPLETA>>,
      <<<<"s", "u", "g", "e", "s", "t", "ã", "o", " ", "d", "e", " ", "m",
        "e", "l", "h", "o", "r", "i", "a">>, 
         SUGESTAO_DE_MELHORIA>>,
      <<<<"s", "u", "g", "e", "s", "t", "a", "o", " ", "d", "e", " ", "m",
        "e", "l", "h", "o", "r", "i", "a">>, 
         SUGESTAO_DE_MELHORIA>>,
      <<<<"s", "u", "g", "e", "s", "t", "a", "o", " ", "m", "e", "l", "h",
        "o", "r", "i", "a">>, 
         SUGESTAO_DE_MELHORIA>>,
      <<<<"s", "u", "g", "e", "s", "t", "ã", "o", " ", "m", "e", "l", "h",
        "o", "r", "i", "a">>, 
         SUGESTAO_DE_MELHORIA>>
    >>

\* The letters of the texts in use, small and capital.
MINUSCULAS ==
    <<"a", "b", "c", "d", "e", "f", "g", "h", "i", "j", "k",
        "l", "m", "n", "o", "p", "q", "r", "s", "t", "u", "v", "w", "x",
        "y", "z", "á", "à", "ã", "â", "é", "ê", "í", "ó", "ô", "õ", "ú",
        "ç">>

MAIUSCULAS ==
    <<"A", "B", "C", "D", "E", "F", "G", "H", "I", "J", "K",
        "L", "M", "N", "O", "P", "Q", "R", "S", "T", "U", "V", "W", "X",
        "Y", "Z", "Á", "À", "Ã", "Â", "É", "Ê", "Í", "Ó", "Ô", "Õ", "Ú",
        "Ç">>

\* c.lower() and c.upper() of one character.
minuscula(c) ==
    IF \E i \in 1..Len(MAIUSCULAS) : MAIUSCULAS[i] = c
    THEN MINUSCULAS[CHOOSE i \in 1..Len(MAIUSCULAS) : MAIUSCULAS[i] = c]
    ELSE c

maiuscula(c) ==
    IF \E i \in 1..Len(MINUSCULAS) : MINUSCULAS[i] = c
    THEN MAIUSCULAS[CHOOSE i \in 1..Len(MINUSCULAS) : MINUSCULAS[i] = c]
    ELSE c

\* The chain of replace() calls, on one character.
sem_acento(c) ==
    CASE c \in {"á", "à", "ã", "â"} -> "a"
      [] c \in {"é", "ê"} -> "e"
      [] c = "í" -> "i"
      [] c \in {"ó", "ô", "õ"} -> "o"
      [] c = "ú" -> "u"
      [] c = "ç" -> "c"
      [] OTHER -> c

\* t.strip(): blanks, tabs and line ends at both ends.
RECURSIVE strip(_)
strip(t) ==
    IF t = <<>> THEN t
    ELSE IF Head(t) \in {" ", "\t", "\n"} THEN strip(Tail(t))
    ELSE IF t[Len(t)] \in {" ", "\t", "\n"}
    THEN strip(SubSeq(t, 1, Len(t) - 1))
    ELSE t

\* servico.strip().lower().replace(...)...
chave_de(t) ==
    LET a == strip(t)
    IN  [i \in 1..Len(a) |-> sem_acento(minuscula(a[i]))]

\* A value of a cell: its type and, for a str, its characters (for another
\* type, the characters of its str()).
Str(t) == [tipo |-> "str", v |-> t]

\* SERVICOS_VALIDOS.get(chave, padrao)
get(chave, padrao) ==
    IF \E i \in 1..Len(SERVICOS_VALIDOS) : SERVICOS_VALIDOS[i][1] = chave
    THEN Str(SERVICOS_VALIDOS[CHOOSE i \in 1..Len(SERVICOS_VALIDOS) :
                                  SERVICOS_VALIDOS[i][1] = chave][2])
    ELSE padrao

\* normalizar_servico without the strip().
normalizar_servico_sem_strip(servico) ==
    IF servico.tipo # "str" THEN servico
    ELSE get([i \in 1..Len(servico.v) |-> sem_acento(minuscula(servico.v[i]))],
             servico)

\* normalizar_servico
normalizar_servico(servico) ==
    IF servico.tipo # "str" THEN servico
    ELSE get(chave_de(servico.v), servico)

\* A key as a cell may hold it: as it is, in capitals, with a capital
\* first letter, between blanks, in capitals between a tab and a line end.
Variantes == {"igual", "maiusculas", "inicial", "brancos", "tab_maiusculas"}

Variante(t, modo) ==
    CASE modo = "igual" -> t
      [] modo = "maiusculas" -> [i \in 1..Len(t) |-> maiuscula(t[i])]
      [] modo = "inicial" ->
            [i \in 1..Len(t) |-> IF i = 1 THEN maiuscula(t[i]) ELSE t[i]]
      [] modo = "brancos" -> <<" ", " ">> \o t \o <<" ">>
      [] modo = "tab_maiusculas" ->
            <<"\t">> \o [i \in 1..Len(t) |-> maiuscula(t[i])] \o <<"\n">>

\* Cells that are no key: a word alone, a key with a grave accent, a key
\* with two blanks inside, an empty text, another service, and values that
\* are not texts (an empty cell, a number).
OutrosServicos ==
    {Str(<<"d", "u", "v", "i", "d", "a">>),
     Str(<<"d", "ù", "v", "i", "d", "a", " ", "n", "e", "g", "o", "c", "i",
           "a", "l">>),
     Str(<<"a", "m", "b", "i", "e", "n", "t", "e", " ", " ", "d", "e", " ",
           "t", "e", "s", "t", "e", "s">>),
     Str(<<>>),
     Str(<<" ", "P", "i", "x", " ">>),
     [tipo |-> "float", v |-> <<"n", "a", "n">>],
     [tipo |-> "int", v |-> <<"1", "2">>]}

InitServico ==
    /\ Init
    /\ arquivo = <<>>
    /\ credenciais = [existe |-> FALSE, username |-> "", password |-> ""]
    /\ colunas = Colunas

\* normalizar_servico is called with a key in some writing (origem is the
\* key's place in SERVICOS_VALIDOS) or with another value (origem 0).
EntrarServico ==
    /\ quadro = QuadroParado
    /\ \/ \E i \in 1..Len(SERVICOS_VALIDOS), modo \in Variantes :
            quadro' = [funcao |-> "normalizar_servico", origem |-> i,
                       servico |-> Str(Variante(SERVICOS_VALIDOS[i][1], modo)),
                       chamadas |-> 0, primeiro |-> Str(<<>>),
                       segundo |-> Str(<<>>)]
       \/ \E s \in OutrosServicos :
            quadro' = [funcao |-> "normalizar_servico", origem |-> 0,
                       servico |-> s, chamadas |-> 0, primeiro |-> Str(<<>>),
                       segundo |-> Str(<<>>)]
    /\ UNCHANGED VarsDeMain

\* normalizar_servico(servico)
Normalizar ==
    /\ quadro.funcao = "normalizar_servico"
    /\ quadro.chamadas = 0
    /\ quadro' = [quadro EXCEPT !.chamadas = 1,
                                !.primeiro = normalizar_servico(quadro.servico)]
    /\ UNCHANGED VarsDeMain

\* normalizar_servico(normalizar_servico(servico))
NormalizarDeNovo ==
    /\ quadro.funcao = "normalizar_servico"
    /\ quadro.chamadas = 1
    /\ quadro' = [quadro EXCEPT !.chamadas = 2,
                                !.segundo = normalizar_servico(quadro.primeiro)]
    /\ UNCHANGED VarsDeMain

NextServico ==
    \/ EntrarServico
    \/ Normalizar
    \/ NormalizarDeNovo

SpecServico == InitServico /\ [][NextServico]_vars

\* ------------------------------------------------------------------------
\* Properties
\* ------------------------------------------------------------------------
\* Rows the file held with a recorded protocol when the run started.
JaRegistrada(r) == inicial[r].plad = PROTOCOLO_ANTERIOR

\* main() is between rows, or past the loop.
FimDaLinha == index >= 1 /\ pc \in {"laco", "finally", "except", "erro", "fim"}

\* C1: a row whose protocol an earlier run recorded is skipped: while main()
\* is at such a row no driver call is made for it and its Confirmar button is
\* not clicked a second time.
C1_LinhaRegistradaPulada ==
    (index >= 1 /\ JaRegistrada(index)) =>
        (~linha.interagiu /\ index \notin exec.confirmadas)

\* C1, the state that refutes it: a second ticket was confirmed and its
\* protocol stored over the one the earlier run recorded.
C1_SegundoChamado ==
    /\ index >= 1
    /\ JaRegistrada(index)
    /\ linha.confirmar_clicado
    /\ arquivo[index].plad = PROTOCOLO_NOVO

\* C2: the captured protocol goes to a cell of its own, so the input
\* 'Protocolo PLAD' value of every row stays what the file held at the start.
C2_PladDeEntradaIntacto ==
    \A r \in 1..Len(df) : df[r].plad = inicial[r].plad

\* C2, the state that refutes it: after a successful registration the input
\* cell of a new row holds the portal's protocol.
C2_PladSobrescrito ==
    /\ pc = "laco"
    /\ index >= 1
    /\ linha.contado_ok
    /\ inicial[index].plad = PLAD_ENTRADA
    /\ arquivo[index].plad = PROTOCOLO_NOVO

\* C3: when main() goes on to the next row or to the final report, the file
\* was rewritten during the row just processed and equals the in-memory
\* table; a row ends without a completed rewrite only when df.to_excel itself
\* raised, and then the run is being aborted by that exception.
C3_GravadoAntesDaProxima ==
    /\ (pc = "laco" /\ index >= 1) => (linha.gravou /\ arquivo = df)
    /\ (FimDaLinha /\ ~linha.gravou) =>
           (linha.falha_escrita /\ excecao = "OSError" /\ pc # "laco" /\ pc # "fim")

\* C3, its case: the first row succeeded, the second failed, and both
\* outcomes are in the file before main() goes on.
C3_DuasLinhasGravadas ==
    /\ pc = "laco"
    /\ index = 2
    /\ linha.contado_erro
    /\ arquivo[1].plad = PROTOCOLO_NOVO
    /\ arquivo[2].obs # NaN

\* C4: a row counted as an error has had a message written to its
\* 'Observação' cell during its processing.
C4_ErroTemObservacao ==
    (index >= 1 /\ linha.contado_erro) =>
        (linha.obs_anotada /\ df[index].obs # NaN)

\* C4, the state that refutes it: the protocol element's text was empty, the
\* row is counted as an error and its 'Observação' cell was never assigned.
C4_ErroSemObservacao ==
    /\ pc = "laco"
    /\ index >= 1
    /\ linha.contado_erro
    /\ linha.capturado = ""
    /\ ~linha.obs_anotada
    /\ arquivo[index].obs = NaN

\* C5: once login succeeded, main() ends only by the final report after the
\* last row, whatever failed in a row.
C5_LoteNuncaAborta ==
    (exec.login_ok /\ pc \in {"fim", "erro"}) =>
        (pc = "fim" /\ index = Len(df) /\ exec.relatorio)

\* C5, the state that refutes it: df.to_excel raised inside log_error in the
\* row loop's except clause, rows are left and main() raised without a report.
C5_LoteAbortado ==
    /\ pc = "erro"
    /\ exec.login_ok
    /\ excecao = "OSError"
    /\ index < Len(df)
    /\ ~exec.relatorio

\* C6: a row whose form filling raised FormularioError is given up only
\* after max_tentativas calls of preencher_formulario.
C6_TresTentativas ==
    (linha.form_falhou /\ pc \in {"retorno", "laco"}) =>
        linha.rodadas = max_tentativas

\* C6, the state that refutes it: the row was given up after one call, with
\* the message of preencher_campos_formulario's own except clause.
C6_DesistiuNaPrimeira ==
    /\ pc = "laco"
    /\ linha.form_falhou
    /\ linha.rodadas = 1
    /\ linha.contado_erro
    /\ arquivo[index].obs = MSG_ERRO_CAMPOS

\* C7: the Registrar button is clicked for a row only after that row's
\* document was looked up and that row's account was selected.
C7_FormularioAposConsultaEConta ==
    linha.registrar_clicado => (linha.consultou /\ linha.conta_selecionada)

\* C7, the state that refutes it: on the second row the form was found open,
\* filled and confirmed with neither lookup nor account selection.
C7_FormularioSemConsulta ==
    /\ index = 2
    /\ linha.confirmar_clicado
    /\ ~linha.consultou
    /\ ~linha.conta_selecionada

\* C8: when login() raised LoginError (after login_max_tentativas failed
\* attempts) the file is neither read nor written, no row is taken, control
\* is in main()'s finally/except path, and main() ends by raising with the
\* browser closed.
C8_FalhaDeLoginAborta ==
    exec.login_falhou =>
        /\ login_tentativa = login_max_tentativas
        /\ exec.leituras = 0
        /\ ~exec.escreveu
        /\ arquivo = inicial
        /\ df = <<>>
        /\ index = 0
        /\ ~linha.interagiu
        /\ excecao = "LoginError"
        /\ pc \in {"finally", "except", "erro"}
        /\ (pc = "erro" => (exec.quits >= 1 /\ navegador = "fechado"))

\* C8, its case: every login attempt failed and main() has raised.
C8_LoginFalhouEAbortou ==
    /\ pc = "erro"
    /\ exec.login_falhou
    /\ Len(arquivo) = MaxRows

\* C9: once the browser is dead no later row is taken and main() does not
\* reach the final report.
C9_NavegadorMortoAborta ==
    navegador = "morto" =>
        (index = exec.linha_da_falha /\ ~exec.relatorio /\ pc # "fim")

\* C9, the state that refutes it: the browser died in the first row, the
\* second row was taken and counted as an error, and main() returned after
\* the final report.
C9_SeguiuComNavegadorMorto ==
    /\ pc = "fim"
    /\ navegador = "morto"
    /\ exec.linha_da_falha = 1
    /\ index = 2
    /\ exec.relatorio
    /\ registros_com_erro = 2

\* C10: a row's protocol cell changes, in memory or in the file, only after
\* Confirmar was clicked for the row in this run, which comes after Registrar;
\* finalizar_atendimento is called only for a row whose captured protocol
\* is not empty and is in the file.
C10_OrdemDosPassos ==
    /\ \A r \in 1..Len(df) :
          (df[r].plad # inicial[r].plad \/ arquivo[r].plad # inicial[r].plad) =>
              r \in exec.confirmadas
    /\ \A r \in exec.confirmadas :
          r <= index /\ (r = index => linha.confirmar_clicado)
    /\ linha.confirmar_clicado => linha.registrar_clicado
    /\ linha.capturado # NENHUM => linha.confirmar_clicado
    /\ linha.finalizar_chamado =>
          /\ linha.capturado \notin {NENHUM, ""}
          /\ linha.gravou
          /\ df[index].plad = linha.capturado
          /\ arquivo[index].plad = linha.capturado

\* C10, its case: the row went through Registrar, Confirmar, capture and
\* save, and finalizar_atendimento returned True.
C10_LinhaFinalizada ==
    /\ pc = "laco"
    /\ linha.contado_ok
    /\ linha.finalizar_chamado
    /\ arquivo[index].plad = PROTOCOLO_NOVO

\* Rows whose outcome main() has counted.
Contadas == registros_processados + registros_com_erro

\* C11: rows are taken one at a time in spreadsheet order: index moves only
\* from the loop head, by one, to a row handed to tentar_preencher_formulario
\* afresh, and only when every earlier row has been counted; while a row is
\* in progress exactly the rows before it are counted, each once.
C11_UmaLinhaPorVez ==
    /\ [](/\ index \in 0..Len(arquivo)
          /\ Contadas = (IF pc \in PcsDaLinha THEN index - 1 ELSE index)
          /\ ~(linha.contado_ok /\ linha.contado_erro))
    /\ [][index' # index =>
            /\ pc = "laco"
            /\ pc' = "pf"
            /\ index' = index + 1
            /\ Contadas = index
            /\ linha'.rodadas = 1
            /\ ~linha'.interagiu]_vars

\* C11, its case: the second row is in progress after the first was counted
\* as an error.
C11_SegundaAposContarPrimeira ==
    /\ pc = "consulta"
    /\ index = 2
    /\ registros_com_erro = 1
    /\ registros_processados = 0

\* C12: the file is read once, after login succeeded and before any row;
\* the table that read produced is never replaced, only the cells of the
\* row in progress change; the file changes only by becoming that table.
C12_LidaUmaVez ==
    /\ [](/\ exec.leituras \in {0, 1}
          /\ exec.leituras = 1 => exec.login_ok
          /\ (index >= 1 \/ exec.escreveu \/ arquivo # inicial) => exec.leituras = 1
          /\ exec.leituras = 1 => Len(df) = Len(inicial))
    /\ [][/\ exec'.leituras # exec.leituras =>
               (exec.leituras = 0 /\ exec.login_ok /\ index = 0 /\ df' = arquivo)
          /\ (df' # df /\ exec'.leituras = exec.leituras) =>
               (/\ exec.leituras = 1
                /\ Len(df') = Len(df)
                /\ \A r \in 1..Len(df) : r # index => df'[r] = df[r])
          /\ arquivo' # arquivo =>
               (exec'.leituras = 1 /\ arquivo' = df' /\ exec'.escreveu)]_vars

\* C12, its case: two rows were processed and written on a single read.
C12_UmaLeituraDuasLinhas ==
    /\ pc = "laco"
    /\ index = 2
    /\ exec.leituras = 1
    /\ arquivo[1] # inicial[1]
    /\ arquivo[2] # inicial[2]

\* login.env is missing or lacks the username or the password.
CredenciaisRuins ==
    ~credenciais.existe \/ credenciais.username = "" \/ credenciais.password = ""

\* C13: with login.env missing, or the username or password in it empty,
\* load_credentials raises and main() ends by raising: no driver is ever
\* created or quit, no login is attempted, the file is neither read nor
\* written and no row is taken.
C13_SemCredenciaisNadaComeca ==
    CredenciaisRuins =>
        /\ pc \in {"credenciais", "except", "erro"}
        /\ pc # "credenciais" =>
              excecao = (IF credenciais.existe THEN "ValueError"
                         ELSE "FileNotFoundError")
        /\ navegador = "nenhum"
        /\ exec.quits = 0
        /\ ~exec.login_ok
        /\ login_tentativa = 0
        /\ exec.leituras = 0
        /\ ~exec.escreveu
        /\ arquivo = inicial
        /\ df = <<>>
        /\ index = 0

\* C13, its case: login.env exists with a username and an empty password,
\* and main() has raised.
C13_SenhaVaziaAbortou ==
    /\ pc = "erro"
    /\ credenciais.existe
    /\ credenciais.username # ""
    /\ credenciais.password = ""
    /\ excecao = "ValueError"
    /\ Len(arquivo) = MaxRows

\* The tags of verificar_tela_atual and the pcs of their branches.
Etiquetas == {"consulta", "selecao_conta", "formulario", "desconhecida"}

\* What a marker's wait can end in, whatever the state of the browser.
TodosMarcadores == {"presente", "ausente", "erro"}

\* The result of verificar_tela_atual on every combination of the markers.
PrioridadeDasTelas ==
    \A doc \in TodosMarcadores, sel \in TodosMarcadores, form \in TodosMarcadores :
        LET t == verificar_tela_atual(doc, sel, form)
        IN  /\ t \in Etiquetas
            /\ t = "consulta" <=> doc = "presente"
            /\ t = "selecao_conta" <=> (doc = "ausente" /\ sel = "presente")
            /\ t = "formulario" <=>
                 (doc = "ausente" /\ sel = "ausente" /\ form = "presente")

\* C14: on every combination of the three markers verificar_tela_atual
\* returns one of the four tags, by priority: 'consulta' iff the document
\* field is present; 'selecao_conta' iff that wait timed out and the select
\* is present; 'formulario' iff both timed out and a form is present;
\* 'desconhecida' otherwise, errors included. In a run, the branch
\* preencher_formulario takes is the one of the markers its call met, and
\* the call hands no exception to preencher_formulario.
C14_TelaPorPrioridade ==
    /\ PrioridadeDasTelas
    /\ pc \in Etiquetas =>
         /\ linha.marcadores \in ObservacoesDe(TodosMarcadores)
         /\ pc = verificar_tela_atual(linha.marcadores[1], linha.marcadores[2],
                                      linha.marcadores[3])
         /\ pc = "consulta" <=> linha.marcadores[1] = "presente"
         /\ pc = "selecao_conta" <=> linha.marcadores[2] = "presente"
         /\ pc = "formulario" <=> linha.marcadores[3] = "presente"
         /\ "erro" \in {linha.marcadores[i] : i \in 1..3} => pc = "desconhecida"
         /\ excecao = "nenhuma"
    /\ pc \notin Etiquetas => linha.marcadores = <<>>

\* C14, its case: the document field timed out, the wait for the account
\* select raised, and the call returned 'desconhecida'.
C14_ErroViraDesconhecida ==
    /\ pc = "desconhecida"
    /\ navegador = "vivo"
    /\ linha.marcadores = <<"ausente", "erro", NAO_AVALIADO>>

\* C15: a click helper starts at most three click rounds, hands no
\* exception to its caller, and returns True exactly when one of its click
\* methods completed without an exception, False otherwise.
C15_CliqueLimitado ==
    /\ clique.rodadas <= clique_max_tentativas
    /\ clique.tentativas <= clique_max_tentativas
    /\ clique.chamadas <= 4 * clique.rodadas
    /\ clique.retorno \in {NENHUM, "True", "False"}
    /\ clique.fase = "fim" <=> clique.retorno # NENHUM
    /\ clique.retorno = "True" <=> clique.completou
    /\ (clique.fase = "fim" /\ ~clique.completou) => clique.retorno = "False"

\* C15, its case: clicar_menu_cobranca went through three rounds in which
\* every click method raised, and returned False.
C15_TresRodadasSemClique ==
    /\ clique.funcao = "clicar_menu_cobranca"
    /\ clique.fase = "fim"
    /\ clique.rodadas = clique_max_tentativas
    /\ clique.chamadas = 4 * clique_max_tentativas
    /\ clique.retorno = "False"

\* C16: for one row preencher_formulario calls itself at most
\* max_tentativas_por_tela times, whatever screens the portal shows, the
\* alternation of consult and account selection included: no frame is
\* deeper than that, and no deeper call is made and refused.
C16_RecursaoLimitada ==
    /\ Len(pilha) <= max_tentativas_por_tela
    /\ linha.recusada <= max_tentativas_por_tela

\* C16, the state that refutes it: the portal showed the consult screen in
\* every frame and account selection after every Abrir; each call from the
\* consult branch restarted tentativa at 0, and the row was given up only
\* when the interpreter refused one more frame, with no driver call failed.
C16_AlternanciaSemLimite ==
    /\ linha.recusada > max_tentativas_por_tela
    /\ arquivo[index].obs = MSG_ERRO_DOCUMENTO
    /\ falhas = 0
    /\ navegador = "vivo"

\* C17: when main() has ended, every row whose Confirmar button was clicked
\* in this run has the portal's protocol number in the spreadsheet file,
\* however long the protocol element took to appear.
C17_ConfirmadoTemProtocolo ==
    pc \in {"fim", "erro"} =>
        \A r \in exec.confirmadas : arquivo[r].plad = PROTOCOLO_NOVO

\* C17, the state that refutes it: Confirmar was clicked for the only row,
\* the protocol element did not appear within the 10 seconds of the wait,
\* every write to the file completed, and main() ended by the final report
\* with the row's protocol cell as it was and an error note beside it.
C17_ConfirmadoSemProtocolo ==
    /\ pc = "fim"
    /\ exec.relatorio
    /\ navegador = "fechado"
    /\ exec.linha_da_falha = 0
    /\ index = 1
    /\ exec.confirmadas = {1}
    /\ linha.capturado = NENHUM
    /\ ~linha.falha_escrita
    /\ arquivo[1].plad = inicial[1].plad
    /\ arquivo[1].obs = MSG_ERRO_CAMPOS
    /\ registros_com_erro = 1

\* C18: for one row the clicks on Registrar and on Confirmar complete at
\* most once each, a row is confirmed only while it is the current row, and
\* no retry, recursion or except clause leads back to either button.
C18_UmCliquePorLinha ==
    /\ linha.cliques_registrar <= 1
    /\ linha.cliques_confirmar <= 1
    /\ linha.cliques_confirmar <= linha.cliques_registrar
    /\ linha.registrar_clicado <=> linha.cliques_registrar = 1
    /\ linha.confirmar_clicado <=> linha.cliques_confirmar = 1
    /\ (linha.registrar_clicado /\ pc \in {"pf", "campos", "registrar"}) => FALSE
    /\ exec.confirmadas \subseteq 1..index

\* C18, its case: on the second row Confirmar was clicked, the capture of the
\* protocol raised, the except clauses ran and the row was counted as an
\* error, with one click on each button.
C18_ErroAposConfirmarSemRepetir ==
    /\ pc = "laco"
    /\ index = 2
    /\ linha.contado_erro
    /\ linha.cliques_registrar = 1
    /\ linha.cliques_confirmar = 1
    /\ linha.capturado = NENHUM
    /\ linha.obs_anotada

\* The mandatory fields among the fields fs.
SoObrigatorios(fs) == SelectSeq(fs, LAMBDA f : f # CANAL)

\* preencher_campos_formulario over the fields, on every input tabulated:
\* a field's loop makes at most three attempts and tells a field valid only
\* if the portal marked it so within them; the function gets past Descrição
\* only with every mandatory field seen valid, in the form's order; it
\* raises FormularioError at the first mandatory field not seen valid, with
\* those before it seen valid.
CamposEmOrdem ==
    /\ \A v \in Validacoes :
          /\ LacoDoCampo(v).tentativas \in 1..tentativas_por_campo
          /\ LacoDoCampo(v).valido <=> Vez(v) <= tentativas_por_campo
    /\ \A r \in PercursosPor[MaxFalhas] \cup {PercursoMorto} :
          /\ r.fim = "segue" <=> SoObrigatorios(r.validos) = Obrigatorios
          /\ r.fim = "segue" => r.campo = Len(Campos)
          /\ r.fim # "segue" =>
                /\ Campos[r.campo] # CANAL
                /\ \A i \in 1..Len(r.validos) : r.validos[i] # Campos[r.campo]
                /\ SoObrigatorios(r.validos) =
                     SoObrigatorios(SubSeq(Campos, 1, r.campo - 1))

\* C19: Registrar is clicked only after Tipo de atendimento, Categoria,
\* Subcategoria, Serviço, Protocolo PLAD and Descrição were each seen
\* 'ng-valid', in this order, within three fill attempts per field. When one
\* of them is not valid after its third attempt neither Registrar nor
\* Confirmar is clicked and the row is given up with None; an error note is
\* in 'Observação' and in the saved file, the note of
\* preencher_campos_formulario unless df.to_excel raised on the way.
C19_RegistrarSoComCamposValidos ==
    /\ CamposEmOrdem
    /\ pc \in {"registrar", "confirmar", "captura"} => linha.obrigatorios_validos
    /\ linha.registrar_clicado => linha.obrigatorios_validos
    /\ (linha.form_falhou /\ ~linha.obrigatorios_validos) =>
          /\ linha.cliques_registrar = 0
          /\ linha.cliques_confirmar = 0
          /\ linha.capturado = NENHUM
          /\ pc = "retorno" => resultado = NENHUM
          /\ pc = "laco" =>
                /\ linha.contado_erro
                /\ linha.obs_anotada
                /\ linha.gravou
                /\ arquivo[index].obs # NaN
                /\ ~linha.falha_escrita => arquivo[index].obs = MSG_ERRO_CAMPOS

\* C19, its case: on the second row a mandatory field was not valid after
\* its third attempt; the row was counted as an error with the note of
\* preencher_campos_formulario in the file and no button clicked.
C19_CampoInvalidoSemRegistrar ==
    /\ pc = "laco"
    /\ index = 2
    /\ linha.form_falhou
    /\ linha.canal_valido
    /\ ~linha.obrigatorios_validos
    /\ linha.cliques_registrar = 0
    /\ arquivo[2].obs = MSG_ERRO_CAMPOS
    /\ linha.contado_erro

\* The place of Canal de autoatendimento among the fields.
PosicaoDoCanal == CHOOSE k \in 1..Len(Campos) : Campos[k] = CANAL

\* Whatever the portal does with Canal de autoatendimento, the function
\* gets as far over the other fields, ends the same way and sees the same
\* mandatory fields valid as when the field is filled at the first attempt.
CanalNaoInterfere ==
    \A os \in Desvios(MaxFalhas), o \in DesfechosDoCampo :
        LET com == PercorrerCampos(1, [os EXCEPT ![PosicaoDoCanal] = "1"], <<>>)
            sem == PercorrerCampos(1, [os EXCEPT ![PosicaoDoCanal] = o], <<>>)
        IN  /\ sem.fim = com.fim
            /\ sem.campo = com.campo
            /\ sem.campo = PosicaoDoCanal => sem.fim = "segue"
            /\ SoObrigatorios(sem.validos) = SoObrigatorios(com.validos)

\* C20: Canal de autoatendimento is optional. Absent, raising or not valid
\* after its three attempts, it leaves the function on its way to Protocolo
\* PLAD, Descrição and Registrar as if it had been filled, and no error is
\* recorded for the row on its account.
C20_CanalOpcional ==
    /\ CanalNaoInterfere
    /\ (pc = "registrar" /\ ~linha.canal_valido) =>
          /\ linha.obrigatorios_validos
          /\ ~linha.form_falhou
          /\ ~linha.obs_anotada
          /\ excecao = "nenhuma"
          /\ df[index].obs = inicial[index].obs
          /\ arquivo[index].obs = inicial[index].obs

\* C20, its case: the field was not filled, the mandatory fields after it
\* were, both buttons were clicked and the row was counted as processed with
\* its protocol in the file and no note written.
C20_SemCanalRegistrou ==
    /\ pc = "laco"
    /\ ~linha.canal_valido
    /\ linha.obrigatorios_validos
    /\ linha.cliques_confirmar = 1
    /\ linha.contado_ok
    /\ ~linha.obs_anotada
    /\ arquivo[index].plad = PROTOCOLO_NOVO
    /\ arquivo[index].obs = inicial[index].obs

\* C21: selecionar_conta_por_cooperativa returns True only with an option
\* of the row's cooperative selected in the account select, never with an
\* account of another cooperative selected.
C21_ContaDaCooperativa ==
    (quadro.funcao = "selecionar_conta_por_cooperativa" /\ quadro.retorno = "True") =>
        /\ quadro.selecionada # 0
        /\ quadro.opcoes[quadro.selecionada] = quadro.cooperativa

\* C21, the state that refutes it: the row's cooperative is 304, the select
\* lists an account of cooperative 3042 before the account of 304, the
\* option of 3042 was selected and the function returned True.
C21_ContaDeOutraCooperativa ==
    /\ quadro.funcao = "selecionar_conta_por_cooperativa"
    /\ quadro.cooperativa = <<3, 0, 4>>
    /\ quadro.opcoes = << <<3, 0, 4, 2>>, <<3, 0, 4>> >>
    /\ quadro.antes = 0
    /\ quadro.selecionada = 1
    /\ quadro.retorno = "True"

\* C22: the description typed into the form is the text the user wrote in
\* the row's 'Observação' or the default message, never a note the program
\* wrote there.
C22_DescricaoDoUsuario ==
    (quadro.funcao = "descricao" /\ quadro.descricao # NENHUM) =>
        /\ quadro.descricao \in {Aparado(quadro.do_usuario), MENSAGEM_PADRAO}
        /\ quadro.descricao \notin Notas

\* C22, the state that refutes it: an earlier run left the note of
\* preencher_campos_formulario in the row, and this run typed it as the
\* ticket's description.
C22_DescricaoENota ==
    /\ quadro.funcao = "descricao"
    /\ quadro.do_usuario = NaN
    /\ quadro.observacao = MSG_ERRO_CAMPOS
    /\ quadro.descricao = MSG_ERRO_CAMPOS

\* C23: every row that was processed adds one to exactly one of
\* registros_processados and registros_com_erro, once: a step adds at most
\* one in all, only to a row not yet counted, and that step ends the row;
\* the loop leaves a row only counted. So at the final report the two
\* counters add up to the number of rows of the table.
C23_CadaLinhaContadaUmaVez ==
    /\ [](exec.relatorio => Contadas = Len(df))
    /\ [][/\ registros_processados' - registros_processados \in {0, 1}
          /\ registros_com_erro' - registros_com_erro \in {0, 1}
          /\ Contadas' # Contadas =>
                /\ Contadas' = Contadas + 1
                /\ pc \in PcsDaLinha
                /\ pc' \notin PcsDaLinha
                /\ ~linha.contado_ok /\ ~linha.contado_erro
                /\ linha'.contado_ok = (registros_processados' # registros_processados)
                /\ linha'.contado_erro = (registros_com_erro' # registros_com_erro)
          /\ (index' # index /\ index > 0) =>
                (linha.contado_ok # linha.contado_erro)]_vars

\* C23, its case: the final report of a run of two rows, one counted as
\* processed and the other, whose finalizar_atendimento failed, counted as
\* an error by the handler of the loop.
C23_RelatorioComAsDuasContagens ==
    /\ exec.relatorio
    /\ Len(df) = 2
    /\ registros_processados = 1
    /\ registros_com_erro = 1
    /\ \E i \in 1..2 : df[i].obs = MSG_PROCESSAMENTO

\* C24: in main_corrigido.py a row that was registered and finalized is
\* counted once, in registros_processados, and its 'Observação' holds no
\* note of the program, whatever the reload of the base URL after the row
\* does; at the final report the two counters add up to total_registros.
C24_FinalizadaContadaUmaVez ==
    quadro.funcao = "main_corrigido" =>
        /\ (quadro.finalizada /\ quadro.passo # "reiniciar") =>
              /\ quadro.contagens = 1
              /\ quadro.obs[quadro.index] \notin Notas
        /\ quadro.passo = "relatorio" =>
              quadro.registros_processados + quadro.registros_com_erro
                 = quadro.total_registros

\* C24, the state that refutes it: the final report of a run of one row,
\* which was registered and finalized and whose reload raised: it is counted
\* in both counters and carries the note of the loop's handler.
C24_FinalizadaContadaDuasVezes ==
    /\ quadro.funcao = "main_corrigido"
    /\ quadro.passo = "relatorio"
    /\ quadro.total_registros = 1
    /\ quadro.finalizada
    /\ quadro.registros_processados = 1
    /\ quadro.registros_com_erro = 1
    /\ quadro.obs[1] = MSG_PROCESSAMENTO

\* A row of the table without its 'Observação' cell.
SemObs(l) == [l EXCEPT !.obs = NaN]

\* finalizar_atendimento was called for the row in progress and did not
\* return True.
FalhaAoFinalizar ==
    /\ linha.finalizar_chamado
    /\ ~linha.contado_ok
    /\ \/ pc = "propaga"
       \/ pc \notin PcsDaLinha

\* C25: when finalizar_atendimento fails for a row, what follows changes in
\* the table and in the file only that row's 'Observação': the captured
\* protocol stays in both; and the row is counted once, as an error.
C25_FalhaAoFinalizarSoAnota ==
    /\ [](FalhaAoFinalizar =>
            /\ df[index].plad = linha.capturado
            /\ arquivo[index].plad = linha.capturado
            /\ linha.capturado \notin {NENHUM, ""}
            /\ pc \notin PcsDaLinha => linha.contado_erro)
    /\ [][(pc = "finalizar" \/ FalhaAoFinalizar) /\ index' = index =>
            /\ Len(df') = Len(df) /\ Len(arquivo') = Len(arquivo)
            /\ \A r \in 1..Len(df) :
                  /\ SemObs(df'[r]) = SemObs(df[r])
                  /\ SemObs(arquivo'[r]) = SemObs(arquivo[r])
                  /\ r # index => (df'[r] = df[r] /\ arquivo'[r] = arquivo[r])
            /\ registros_com_erro' # registros_com_erro =>
                  /\ registros_com_erro' = registros_com_erro + 1
                  /\ ~linha.contado_erro
                  /\ linha'.contado_erro
            /\ FalhaAoFinalizar => registros_processados' = registros_processados]_vars

\* C25, its case: the second row's protocol was captured and saved,
\* finalizar_atendimento failed, and the handler of the loop counted the row
\* and left its note beside the protocol, in the table and in the file.
C25_ProtocoloFicouAposFalha ==
    /\ pc = "laco"
    /\ index = 2
    /\ linha.finalizar_chamado
    /\ linha.contado_erro
    /\ linha.capturado = PROTOCOLO_NOVO
    /\ df[2].plad = PROTOCOLO_NOVO
    /\ arquivo[2].plad = PROTOCOLO_NOVO
    /\ arquivo[2].obs = MSG_PROCESSAMENTO

\* C26: on an unknown screen, met with tentativa below
\* max_tentativas_por_tela, the base URL is loaded and preencher_formulario
\* is entered again with tentativa + 1 (or the load, or the call, raises into
\* the outer except clause, which notes its own message); entered with
\* tentativa at max_tentativas_por_tela or above, preencher_formulario looks
\* at no screen: it notes 'Número máximo de tentativas excedido para esta
\* tela', saves and returns None (the exception of a failed save goes on to
\* the outer except clause).
C26_TelaDesconhecidaLimitada ==
    /\ [](pc \in Etiquetas => tentativa < max_tentativas_por_tela)
    /\ [][(pc = "desconhecida" /\ pc' # pc) =>
            \/ /\ pc' = "pf"
               /\ tentativa' = tentativa + 1
               /\ pilha' = Append(pilha, "desc")
               /\ df' = df /\ arquivo' = arquivo
            \/ /\ pc' \in {"retorno", "propaga"}
               /\ df'[index].obs = MSG_ERRO_GERAL
               /\ resultado' = NENHUM]_vars
    /\ [][(pc = "pf" /\ tentativa >= max_tentativas_por_tela /\ pc' # pc) =>
            /\ df' = [df EXCEPT ![index].obs = MSG_MAX_TENTATIVAS]
            /\ linha'.marcadores = linha.marcadores
            /\ linha'.interagiu = linha.interagiu
            /\ navegador' = navegador
            /\ resultado' = NENHUM
            /\ \/ pc' = "retorno" /\ arquivo' = df'
               \/ pc' = "propaga" /\ arquivo' = arquivo /\ linha'.falha_escrita]_vars

\* C26, its case: the screen was unknown three times, the base URL was
\* loaded after each, the fourth entry wrote the note and the row was
\* counted as an error.
C26_TresTelasDesconhecidas ==
    /\ pc = "laco"
    /\ linha.contado_erro
    /\ linha.rodadas = 1
    /\ falhas = 0
    /\ navegador = "vivo"
    /\ df[index].obs = MSG_MAX_TENTATIVAS
    /\ arquivo[index].obs = MSG_MAX_TENTATIVAS

\* A row of the table without its 'Protocolo PLAD' and 'Observação' cells.
OutrasColunas(l) == [l EXCEPT !.plad = NaN, !.obs = NaN]

\* C27: while row index is processed the table in memory changes only in
\* that row's 'Protocolo PLAD' and 'Observação' cells: every other row and
\* every other column stays as it was; so the table differs from the one
\* that was read only in those two cells of the rows taken so far.
C27_SoAsCelulasDaLinha ==
    /\ [](exec.leituras = 1 =>
            /\ Len(df) = Len(inicial)
            /\ \A r \in 1..Len(df) :
                  /\ OutrasColunas(df[r]) = OutrasColunas(inicial[r])
                  /\ r > index => df[r] = inicial[r])
    /\ [][exec.leituras = 1 =>
            /\ Len(df') = Len(df)
            /\ \A r \in 1..Len(df) :
                  IF r = index
                  THEN OutrasColunas(df'[r]) = OutrasColunas(df[r])
                  ELSE df'[r] = df[r]]_vars

\* C27, its case: the first row got its protocol, the second its note; the
\* first row's 'Observação' and the second's 'Protocolo PLAD' are as read.
C27_DuasLinhasDuasCelulas ==
    /\ pc = "laco"
    /\ index = 2
    /\ df[1].plad = PROTOCOLO_NOVO
    /\ df[1].plad # inicial[1].plad
    /\ df[1].obs = inicial[1].obs
    /\ df[2].obs = MSG_CONTA
    /\ df[2].plad = inicial[2].plad

\* C28: login() makes at most login_max_tentativas attempts, each starting
\* with a load of the base URL, and every call ends, by returning True or by
\* raising LoginError: it returns nothing else, raises nothing else and
\* raises only after the last attempt failed.
C28_LoginTerminaEmTres ==
    /\ [](quadro.funcao = "login" =>
            /\ quadro.tentativa \in 0..(login_max_tentativas - 1)
            /\ quadro.cargas <= login_max_tentativas
            /\ quadro.cargas = (IF quadro.fase = "carregar" THEN quadro.tentativa
                                ELSE quadro.tentativa + 1)
            /\ Len(quadro.historia) \in {quadro.tentativa, quadro.tentativa + 1}
            /\ (quadro.fase = "fim") = (quadro.retorno # NENHUM)
            /\ quadro.retorno \in {NENHUM, "True", "levanta"}
            /\ quadro.retorno = "levanta" =>
                  /\ quadro.excecao = "LoginError"
                  /\ quadro.cargas = login_max_tentativas
                  /\ Len(quadro.historia) = login_max_tentativas)
    /\ (quadro.funcao = "login" ~> (quadro.funcao = "login" /\ quadro.fase = "fim"))

\* C28, its case: two attempts failed, the third waited for the QR code
\* until the timeout, and LoginError left login() after three loads.
C28_TerceiraTentativaLevanta ==
    /\ quadro.funcao = "login"
    /\ quadro.retorno = "levanta"
    /\ quadro.excecao = "LoginError"
    /\ quadro.cargas = 3
    /\ quadro.historia[3] = <<"qr", "TimeoutException">>

\* C29: when no option of the select has a text containing 'Coop: ' and the
\* row's cooperative, selecionar_conta_por_cooperativa returns False and
\* leaves the selection as it was; the row then ends with 'Falha ao
\* selecionar conta' noted and saved (or, the save having raised, with the
\* note of the outer except clause), and neither the Cobrança menu nor the
\* register-ticket button is clicked.
C29_SemOpcaoNaoSeleciona ==
    (/\ quadro.funcao = "selecionar_conta_por_cooperativa"
     /\ quadro.retorno # NENHUM
     /\ PrimeiraOpcao(quadro.cooperativa, quadro.opcoes) = 0) =>
        /\ quadro.retorno = "False"
        /\ quadro.selecionada = quadro.antes
        /\ quadro.fim =>
              /\ ~quadro.cobranca
              /\ ~quadro.registro
              /\ IF quadro.falha_escrita
                 THEN quadro.obs = MSG_ERRO_GERAL
                 ELSE quadro.obs = MSG_CONTA /\ quadro.salva

\* C29, its case: the row's cooperative is 4027, the select offers accounts
\* of 304 and 3042 with the second selected; the call returned False and the
\* row ended with the note saved and no click.
C29_CooperativaAusente ==
    /\ quadro.funcao = "selecionar_conta_por_cooperativa"
    /\ quadro.cooperativa = <<4, 0, 2, 7>>
    /\ quadro.opcoes = << <<3, 0, 4>>, <<3, 0, 4, 2>> >>
    /\ quadro.antes = 2
    /\ quadro.retorno = "False"
    /\ quadro.fim
    /\ quadro.obs = MSG_CONTA
    /\ quadro.salva
    /\ ~quadro.cobranca

\* C30: on the consult screen the consult button (and Abrir after it) is
\* clicked only when the digits of the value read back from the document
\* field are, in order, the digits of the row's 'Documento do cooperado';
\* when they are not, the row ends with 'Falha ao preencher documento'
\* noted and saved and nothing clicked.
C30_ConsultaSoComDocumentoCerto ==
    (quadro.funcao = "consulta" /\ quadro.passo = "fim") =>
        /\ quadro.numeros = Digitos(quadro.documento)
        /\ quadro.abrir => quadro.consultar
        /\ quadro.consultar => Digitos(quadro.valor_preenchido) = quadro.numeros
        /\ (quadro.obs # MSG_ERRO_DOCUMENTO
            /\ Digitos(quadro.valor_preenchido) # quadro.numeros) =>
              /\ quadro.obs = MSG_DOCUMENTO
              /\ quadro.salva
              /\ ~quadro.consultar
              /\ ~quadro.abrir

\* C30, its case: the field kept the characters of the CPF with two digits
\* exchanged; the digits read back are the same digits in another order,
\* and the row ended with the note and no click.
C30_DigitosTrocados ==
    /\ quadro.funcao = "consulta"
    /\ quadro.passo = "fim"
    /\ quadro.documento = CPF_PONTUADO
    /\ Len(Digitos(quadro.valor_preenchido)) = 11
    /\ Digitos(quadro.valor_preenchido) # quadro.numeros
    /\ quadro.obs = MSG_DOCUMENTO
    /\ quadro.salva
    /\ ~quadro.consultar

C32_ColunaAusenteAborta ==
    ~(required_columns \subseteq colunas) =>
        /\ index = 0
        /\ ~linha.interagiu
        /\ ~exec.escreveu
        /\ arquivo = inicial
        /\ ~exec.relatorio
        /\ pc \notin PcsDaLinha \cup {"laco", "fim"}
        /\ exec.leituras = 1 =>
              /\ excecao = "ValueError"
              /\ pc \in {"finally", "except", "erro"}
        /\ (pc = "erro" /\ exec.login_ok) =>
              /\ exec.leituras = 1
              /\ exec.quits >= 1
              /\ navegador = "fechado"

\* C32, its case: the file of MaxRows rows has no 'Cooperativa' column; login
\* succeeded, the table was read, and main() raised ValueError after
\* driver.quit().
C32_SemCooperativaAbortou ==
    /\ pc = "erro"
    /\ colunas = Colunas \ {"Cooperativa"}
    /\ Len(arquivo) = MaxRows
    /\ exec.login_ok
    /\ excecao = "ValueError"
    /\ navegador = "fechado"
    /\ df = arquivo

\* The cell holds a value, its trimmed text is not the letters nan in any
\* case, and that text has 10 characters or more.
ObservacaoValida(celula) ==
    /\ celula # NaN
    /\ Aparado(celula) \notin {"nan", "NAN", "Nan"}
    /\ Comprimento(Aparado(celula)) >= 10

\* C33: the description typed is the trimmed text of the row's 'Observação'
\* exactly when the cell holds a value whose trimmed text is not 'nan' in
\* any letter case and has 10 characters or more; otherwise it is the
\* default message.
C33_DescricaoOuPadrao ==
    (quadro.funcao = "descricao" /\ quadro.descricao # NENHUM) =>
        /\ quadro.descricao =
              (IF ObservacaoValida(quadro.observacao)
               THEN Aparado(quadro.observacao) ELSE MENSAGEM_PADRAO)
        /\ (quadro.descricao = Aparado(quadro.observacao))
              = ObservacaoValida(quadro.observacao)

\* C33, its case: a text of exactly 10 characters was typed as it is.
C33_DezCaracteres ==
    /\ quadro.funcao = "descricao"
    /\ quadro.observacao = "Sem boleto"
    /\ quadro.descricao = "Sem boleto"

\* C34: when main() has ended, by returning or by raising, and a browser
\* session had been started, driver.quit() was called: once on the way of
\* the finally clause, and once more in the outer except clause when main()
\* raises. With no session started it was never called.
C34_QuitEmTodaSaida ==
    /\ navegador = "nenhum" => exec.quits = 0
    /\ pc \in {"fim", "erro"} =>
          IF navegador = "nenhum" THEN pc = "erro"
          ELSE /\ navegador \in {"fechado", "morto"}
               /\ exec.quits = (IF pc = "fim" THEN 1 ELSE 2)

\* C34, its case: df.to_excel raised inside the handler of the row loop,
\* the exception left the loop, and main() raised after driver.quit().
C34_QuitAposErroNoLaco ==
    /\ pc = "erro"
    /\ excecao = "OSError"
    /\ index = 1
    /\ Len(df) = 2
    /\ exec.quits = 2
    /\ navegador = "fechado"

\* ------------------------------------------------------------------------
\* src/teste.py: preencher_formulario. The file as committed does not
\* compile: lines 1143, 1155 and 1173 end with an unmatched ')' and line
\* 1296 has text after the closing quote of its string. The function is
\* modelled as it is written, those characters apart.

\* The values verificar_tela_atual returns.
TelasTeste == {"consulta", "selecao_conta", "formulario", "desconhecida"}

\* The names bound in a frame of preencher_formulario when control reaches
\* the comparison after the document was typed: the parameters and the
\* assignments made so far (no global of the module and no builtin is
\* called numerados).
NomesDaConsulta ==
    {"driver", "actions", "row", "index", "df", "tentativa",
     "max_tentativas_por_tela", "tela_atual", "campo_documento_xpath",
     "campo_documento", "doc_original", "numeros", "doc_formatado",
     "valor_preenchido", "valor_preenchido_numeros"}

MSG_NAME_ERROR == "Erro ao preencher documento: name 'numerados' is not defined"
MSG_DADOS_INCOMPLETOS == "Dados incompletos na planilha"
MSG_ERRO_FORMULARIO == "Erro ao preencher formulário"

\* What the portal answers to the steps of the consult branch.
PortalDaConsulta ==
    [campo : {"ok", "erro"}, leitura : {"confere", "difere"},
     consultar : BOOLEAN, cooperada : BOOLEAN, abrir : BOOLEAN,
     tela_apos : {"selecao_conta", "consulta"}]

\* The portal answers every step of the consult branch as a registered
\* member's document deserves.
PortalCoopera(d) ==
    /\ d.campo = "ok"
    /\ d.leitura = "confere"
    /\ d.consultar
    /\ d.cooperada
    /\ d.abrir
    /\ d.tela_apos = "selecao_conta"

\* df.at[index, 'Observação'] = nota; df.to_excel(...); return None. A save
\* that raises goes to the function's except clause, which writes its own
\* note and saves again; if that save raises too the exception leaves the
\* function.
AnotarTeste(q, nota, e, e2) ==
    IF e = "ok"
    THEN [q EXCEPT !.fim = TRUE, !.obs = nota, !.salva = TRUE]
    ELSE [q EXCEPT !.fim = TRUE,
                   !.retorno = IF e2 = "ok" THEN NENHUM ELSE "levanta",
                   !.obs = MSG_ERRO_FORMULARIO, !.salva = e2 = "ok"]

\* return preencher_formulario(driver, actions, row, index, df, tentativa + 1)
ReentrarTeste(q, tela, coopera) ==
    [q EXCEPT !.tentativa = q.tentativa + 1, !.tela = tela,
              !.coopera = q.coopera /\ coopera]

\* The screen q.tela was handled in this entry.
RodadaTeste(q) ==
    [q EXCEPT !.rodadas = q.rodadas + 1, !.trilha = Append(q.trilha, q.tela)]

InitTeste ==
    /\ Init
    /\ arquivo = <<>>
    /\ credenciais = [existe |-> FALSE, username |-> "", password |-> ""]
    /\ colunas = Colunas

\* tentar_preencher_formulario calls preencher_formulario(driver, actions,
\* row, index, df): tentativa = 0, the browser on some screen.
EntrarTeste ==
    /\ quadro = QuadroParado
    /\ \E t \in TelasTeste :
         quadro' = [funcao |-> "teste.preencher_formulario", tentativa |-> 0,
                    tela |-> t, origem |-> t, trilha |-> <<>>, rodadas |-> 0,
                    coopera |-> TRUE, portal |-> NENHUM, excecao |-> NENHUM,
                    retorno |-> NENHUM, fim |-> FALSE, obs |-> NaN,
                    salva |-> FALSE]
    /\ UNCHANGED VarsDeMain

\* if tentativa >= max_tentativas_por_tela: the note, the save, None.
ExcedeuTeste ==
    /\ quadro.funcao = "teste.preencher_formulario"
    /\ ~quadro.fim
    /\ quadro.tentativa >= max_tentativas_por_tela
    /\ \E e \in {"ok", "erro"}, e2 \in {"ok", "erro"} :
         quadro' = AnotarTeste(quadro, MSG_MAX_TENTATIVAS, e, e2)
    /\ UNCHANGED VarsDeMain

\* esperar_spinner_desaparecer returns False: FormularioError is raised
\* inside the function's own try and caught by its except Exception.
SpinnerTeste ==
    /\ quadro.funcao = "teste.preencher_formulario"
    /\ ~quadro.fim
    /\ quadro.tentativa < max_tentativas_por_tela
    /\ \E e2 \in {"ok", "erro"} :
         quadro' = [AnotarTeste(quadro, MSG_ERRO_FORMULARIO, "erro", e2)
                       EXCEPT !.excecao = "FormularioError",
                              !.coopera = FALSE]
    /\ UNCHANGED VarsDeMain

\* tela_atual == "formulario": the row's data are validated and the fields
\* are filled in this same entry.
FormularioTeste ==
    /\ quadro.funcao = "teste.preencher_formulario"
    /\ ~quadro.fim
    /\ quadro.tentativa < max_tentativas_por_tela
    /\ quadro.tela = "formulario"
    /\ \E o \in {"incompletos", "levanta", "ok"},
          e \in {"ok", "erro"}, e2 \in {"ok", "erro"} :
         LET q == RodadaTeste(quadro)
         IN  quadro' =
               CASE o = "incompletos" ->
                      [AnotarTeste(q, MSG_DADOS_INCOMPLETOS, e, e2)
                          EXCEPT !.coopera = FALSE]
                 [] o = "levanta" ->
                      [AnotarTeste(q, MSG_ERRO_FORMULARIO, e, e2)
                          EXCEPT !.coopera = FALSE]
                 [] OTHER -> [q EXCEPT !.fim = TRUE, !.retorno = "True"]
    /\ UNCHANGED VarsDeMain

\* tela_atual == "selecao_conta": the account, the Cobrança menu, the
\* register button and the wait for the form's first field; then the
\* function calls itself with tentativa + 1.
SelecaoContaTeste ==
    /\ quadro.funcao = "teste.preencher_formulario"
    /\ ~quadro.fim
    /\ quadro.tentativa < max_tentativas_por_tela
    /\ quadro.tela = "selecao_conta"
    /\ \E o \in {MSG_CONTA, MSG_COBRANCA, MSG_REGISTRO,
                 "Formulário não abriu corretamente", "ok"},
          t \in TelasTeste, e \in {"ok", "erro"}, e2 \in {"ok", "erro"} :
         LET q == RodadaTeste(quadro)
         IN  quadro' =
               IF o = "ok"
               THEN ReentrarTeste(q, t, t = "formulario")
               ELSE [AnotarTeste(q, o, e, e2) EXCEPT !.coopera = FALSE]
    /\ UNCHANGED VarsDeMain

\* tela_atual == "consulta": the document is typed and read back; the
\* comparison 'valor_preenchido_numeros == numerados' looks up a name that
\* is not bound, so NameError is raised there and caught by the branch's
\* except clause. With the name bound, the branch would go on to the
\* consult button, the person check, Abrir, and the call with
\* tentativa + 1.
ConsultaTeste ==
    /\ quadro.funcao = "teste.preencher_formulario"
    /\ ~quadro.fim
    /\ quadro.tentativa < max_tentativas_por_tela
    /\ quadro.tela = "consulta"
    /\ \E d \in PortalDaConsulta, e \in {"ok", "erro"}, e2 \in {"ok", "erro"} :
         LET q == [RodadaTeste(quadro) EXCEPT !.portal = d,
                      !.coopera = quadro.coopera /\ PortalCoopera(d)]
         IN  quadro' =
               IF d.campo = "erro"
               THEN [AnotarTeste(q, MSG_ERRO_DOCUMENTO, e, e2)
                        EXCEPT !.excecao = "TimeoutException"]
               ELSE IF "numerados" \notin NomesDaConsulta
               THEN [AnotarTeste(q, MSG_NAME_ERROR, e, e2)
                        EXCEPT !.excecao = "NameError"]
               ELSE IF d.leitura # "confere"
               THEN AnotarTeste(q, MSG_DOCUMENTO, e, e2)
               ELSE IF ~d.consultar THEN AnotarTeste(q, MSG_CONSULTAR, e, e2)
               ELSE IF ~d.cooperada THEN AnotarTeste(q, MSG_PESSOA, e, e2)
               ELSE IF ~d.abrir THEN AnotarTeste(q, MSG_ABRIR, e, e2)
               ELSE IF d.tela_apos # "selecao_conta"
               THEN AnotarTeste(q, MSG_TELA_NAO_MUDOU, e, e2)
               ELSE ReentrarTeste(q, "selecao_conta", TRUE)
    /\ UNCHANGED VarsDeMain

\* Any other screen: driver.get(BASE_URL), the spinner wait, and the call
\* with tentativa + 1.
DesconhecidaTeste ==
    /\ quadro.funcao = "teste.preencher_formulario"
    /\ ~quadro.fim
    /\ quadro.tentativa < max_tentativas_por_tela
    /\ quadro.tela = "desconhecida"
    /\ \E t \in TelasTeste :
         quadro' = ReentrarTeste(RodadaTeste(quadro), t, FALSE)
    /\ UNCHANGED VarsDeMain

NextTeste ==
    \/ EntrarTeste
    \/ ExcedeuTeste
    \/ SpinnerTeste
    \/ FormularioTeste
    \/ SelecaoContaTeste
    \/ ConsultaTeste
    \/ DesconhecidaTeste

SpecTeste == InitTeste /\ [][NextTeste]_vars

\* C35: in teste.py every re-entry of preencher_formulario passes
\* tentativa + 1, so one call from tentar_preencher_formulario handles at
\* most max_tentativas_por_tela screens and ends; and a row that starts on
\* the consult screen, the portal answering every step, is handled as
\* consulta at tentativa 0, selecao_conta at 1 and formulario at 2, where
\* the form is filled.
C35_ConsultaChegaAoFormulario ==
    quadro.funcao = "teste.preencher_formulario" =>
        /\ quadro.rodadas <= max_tentativas_por_tela
        /\ quadro.rodadas <= quadro.tentativa + 1
        /\ (quadro.fim /\ quadro.origem = "consulta" /\ quadro.coopera) =>
              /\ quadro.retorno = "True"
              /\ quadro.tentativa = 2
              /\ quadro.trilha = <<"consulta", "selecao_conta", "formulario">>

\* C35, the refuting case: the call began on the consult screen, the portal
\* would have answered every step, and the call ended at tentativa 0 with
\* None and the note of the NameError, saved.
C35_NameErrorNaConsulta ==
    /\ quadro.funcao = "teste.preencher_formulario"
    /\ quadro.origem = "consulta"
    /\ quadro.excecao = "NameError"
    /\ PortalCoopera(quadro.portal)
    /\ quadro.coopera
    /\ quadro.fim
    /\ quadro.retorno = NENHUM
    /\ quadro.tentativa = 0
    /\ quadro.trilha = <<"consulta">>
    /\ quadro.obs = MSG_NAME_ERROR
    /\ quadro.salva

\* t is written on the mask: the characters of 'sinais' at their places
\* and a digit at every other place.
NaMascara(t, sinais) ==
    /\ Len(t) = Len(sinais)
    /\ \A i \in 1..Len(t) :
          IF sinais[i] = "d" THEN EhDigito(t[i]) ELSE t[i] = sinais[i]

\* C36: formatar_documento keeps the digits. An argument with exactly 11
\* digits comes back on the mask ddd.ddd.ddd-dd and one with exactly 14 on
\* dd.ddd.ddd/dddd-dd, and in both cases the digits of the result are the
\* digits of the argument, in order; with any other number of digits the
\* argument comes back as it was.
C36_FormatarPreservaDigitos ==
    (quadro.funcao = "formatar_documento" /\ quadro.feito) =>
        LET n == Digitos(quadro.documento)
            r == quadro.retorno
        IN  IF Len(n) = 11
            THEN /\ NaMascara(r, <<"d", "d", "d", ".", "d", "d", "d", ".",
                                   "d", "d", "d", "-", "d", "d">>)
                 /\ Digitos(r) = n
            ELSE IF Len(n) = 14
            THEN /\ NaMascara(r, <<"d", "d", ".", "d", "d", "d", ".", "d",
                                   "d", "d", "/", "d", "d", "d", "d", "-",
                                   "d", "d">>)
                 /\ Digitos(r) = n
            ELSE r = quadro.documento

\* C36, its case: 11 digits written with a point after every third one
\* came back on the CPF mask.
C36_OnzeDigitosComPontos ==
    /\ quadro.funcao = "formatar_documento"
    /\ quadro.feito
    /\ quadro.documento = <<"7", "4", "1", ".", "8", "5", "2", ".", "9", "6",
                            "3", ".", "0", "7">>
    /\ quadro.retorno = <<"7", "4", "1", ".", "8", "5", "2", ".", "9", "6",
                          "3", "-", "0", "7">>

\* C37: normalizar_servico applied to its own result gives that result
\* again; every key of SERVICOS_VALIDOS, in small letters or capitals and
\* between blanks, goes to the value the key has in the table; a text whose
\* trimmed, lower-cased, unaccented form is no key, and a value that is no
\* text, come back as they were.
C37_NormalizarServico ==
    quadro.funcao = "normalizar_servico" =>
        /\ quadro.chamadas = 2 => quadro.segundo = quadro.primeiro
        /\ (quadro.chamadas >= 1 /\ quadro.origem # 0) =>
              quadro.primeiro = Str(SERVICOS_VALIDOS[quadro.origem][2])
        /\ (quadro.chamadas >= 1 /\ quadro.servico.tipo # "str") =>
              quadro.primeiro = quadro.servico
        /\ (/\ quadro.chamadas >= 1
            /\ quadro.servico.tipo = "str"
            /\ \A i \in 1..Len(SERVICOS_VALIDOS) :
                  SERVICOS_VALIDOS[i][1] # chave_de(quadro.servico.v)) =>
              quadro.primeiro = quadro.servico

\* C37, its case: the accented key 'integração incompleta', in capitals
\* between a tab and a line end, went to 'Integração Imcompleta', and so
\* did that value when normalised again.
C37_ChaveAcentuadaEmMaiusculas ==
    /\ quadro.funcao = "normalizar_servico"
    /\ quadro.chamadas = 2
    /\ quadro.servico.v =
          <<"\t", "I", "N", "T", "E", "G", "R", "A", "Ç", "Ã", "O", " ", "I",
            "N", "C", "O", "M", "P", "L", "E", "T", "A", "\n">>
    /\ quadro.primeiro = Str(INTEGRACAO_IMCOMPLETA)
    /\ quadro.segundo = Str(INTEGRACAO_IMCOMPLETA)

====
